---- MODULE Spec2Model ----
(***************************************************************************)
(* Pixiv-XP-Pusher: the Store (database.py), the orchestrator tick         *)
(* (main.py main_task), the admin commands and the reaction path of the    *)
(* two notifiers (notifier/telegram.py, notifier/onebot.py).               *)
(*                                                                         *)
(* Specifications sharing the Store variables:                             *)
(*   SpecStore  - the typed Store operations called in any order;          *)
(*   SpecTick   - two ticks that may overlap (--now task and cron jobs);   *)
(*   SpecSource - one tick with the three fetch strategies told apart;     *)
(*   SpecPush   - one tick plus the admin commands that send works;        *)
(*   SpecReact  - reactions arriving at the listeners and their handling;  *)
(*   SpecAuth   - updates of senders inside and outside the allow-list;    *)
(*   SpecGate   - the same with the notifier's own state (batch mode, ...); *)
(*   SpecFetch  - one tick with the queries of the three fetch strategies;  *)
(*   SpecReset  - the Store's writers and reset_xp_data (--reset-xp);       *)
(*   SpecAlert  - one tick with a failing tag cleaner and its summary;     *)
(*   SpecRetry  - the retry_ai action on logged cleaner errors;            *)
(*   SpecReply  - text replies against pending inputs of the notifier;     *)
(*   SpecRebuild - a tick's profile rebuild beside a reaction's handling.  *)
(* Specifications of the daemon (main.py run_scheduler):                   *)
(*   SpecAction   - admin commands handed to the orchestrator;             *)
(*   SpecListen   - the listeners and the polling health check;            *)
(*   SpecShutdown - the shutdown paths of the sleep loop;                  *)
(*   SpecCron     - restarts with cron lines of four to six fields;        *)
(*   SpecClose    - the notifiers' stop operations called repeatedly.      *)
(* Specifications of single components:                                    *)
(*   SpecLimiter   - utils.AsyncRateLimiter.acquire on a discrete clock;   *)
(*   SpecMap       - the send operations and the message map;             *)
(*   SpecThreshold - the bookmark thresholds of discover's searches;       *)
(*   SpecDiscover  - fetcher.discover, its queries and its result;         *)
(*   SpecRetryAsync - utils.retry_async around a failing function;         *)
(*   SpecFlood     - telegram._retry_on_flood around a send;               *)
(*   SpecSend      - what the notifiers' send delivers and reports;        *)
(*   SpecSearch    - the search wizard and the forced batch mode.          *)
(***************************************************************************)
EXTENDS Integers, Sequences, FiniteSets, TLC

\* ------------------------------------------------------------------ bounds
NumWorks == 2
MaxStoreOps == 4
MaxEvents == 3
MaxQueries == 2
MaxTime == 4
\* AsyncRateLimiter.max_tokens, the bucket capacity (requests_per_minute)
max_tokens == 2
\* the size limit of the message map (200 in the code), scaled down; half of
\* it (100 in the code) is evicted
MapLimit == 4
\* the configured dislike threshold of the effective blacklist
DislikeThreshold == 3
MaxMessages == 5

Works == 1..NumWorks
\* main.py setup_notifiers: the telegram notifier first, then the onebot one
notifiers == <<"telegram", "onebot">>
Ticks == {1, 2}
Users == {1, 2}
TagNames == {"t1", "t2"}
Sources == {"search", "subscription", "ranking"}
Strategies == {"search", "subscription", "ranking"}
Actions == {"like", "dislike"}

\* Illust.tags / Illust.user_id of the works the platform returns
IllustTags(w) == IF w % 2 = 1 THEN <<"t1">> ELSE <<"t1", "t2">>
IllustUser(w) == w % 2
\* config fetcher.subscribed_artists
manual_subs == {1}

VARIABLES
    \* ---- Store tables (database.py)
    push_history,       \* illust_id -> the sources of its rows, oldest first
    xp_profile,         \* tag -> weight, a row per tag of the DOMAIN
    xp_tag_pairs,       \* set of rows <<tag1, tag2, weight>>
    tag_mapping_stats,  \* <<normalized, original>> -> frequency
    ai_error_logs,      \* sequence of rows [tags, status]
    feedback,           \* illust_id -> action
    tag_blacklist,      \* tag -> dislike_count
    illust_cache,       \* illust_id -> tags
    store_ops,          \* number of Store operations applied (SpecStore)
    remarked,           \* history: ids marked pushed while already pushed
    reset_cleared,      \* history: reset_xp_data ran on a profile that had entries
    side_tables,        \* the tables ai_tag_cache, bookmarks and system_state
    search_calls,       \* history: the discover queries handed to client.search_illusts
    cleaner,            \* the tag cleaner's failures in the tick, the summary, the replays
    daemon,             \* run_scheduler: the scheduler and what the handlers asked of it
    run,                \* calls in progress of single functions: their locals and history
    \* ---- orchestrator ticks (main.py main_task) and their history
    tick,               \* per tick slot: its position and locals
    overlapped,         \* history: two ticks were in progress at once
    tick_sent,          \* history: per work, tick runs with the id in all_sent_ids
    cmd_log,            \* history: per work, deliveries by admin commands
    recorded_origin,    \* history: per work, strategies that produced the marked work
    fetch,              \* the fetch phase of a tick: its position, results and history
    admin_texts,        \* history: kinds of text messages sent through the notifiers
    \* ---- notifiers (telegram.py / onebot.py) and the reaction path
    allowed_users,      \* TelegramNotifier.allowed_users ({} is None: everyone)
    master_id,          \* OneBotNotifier.master_id (0 is None: everyone)
    message_illust_map, \* TelegramNotifier._message_illust_map
    task,               \* the reaction being handled (handle_feedback in flight)
    events,             \* number of updates taken (SpecReact)
    apply_count,        \* history: per id, calls of profiler.apply_feedback
    bookmark_calls,     \* history: per id, calls of client.add_bookmark
    last_done,          \* history: the last reaction handled to its end
    batch_mode,         \* TelegramNotifier.batch_mode
    pending_input,      \* TelegramNotifier._pending_input ("none" is None)
    search_sessions,    \* TelegramNotifier._search_sessions: users with a wizard open
    daily_limit,        \* config filter.daily_limit (0: as configured at start)
    outsider_log,       \* history: <<update kind, response>> for senders outside the allow-list
    \* ---- utilities (utils.py)
    limiter,            \* AsyncRateLimiter with its clock and the history of its returns
    map_order           \* insertion order of _message_illust_map's keys, and the last send

storeVars == <<push_history, xp_profile, xp_tag_pairs, tag_mapping_stats,
               ai_error_logs, feedback, tag_blacklist, illust_cache>>
fetchVars == <<fetch, admin_texts>>
tickVars == <<tick, overlapped, tick_sent, cmd_log, recorded_origin, fetchVars>>
notifierVars == <<batch_mode, pending_input, search_sessions, daily_limit>>
reactVars == <<allowed_users, master_id, message_illust_map, task, events,
               apply_count, bookmark_calls, last_done, notifierVars>>
auxVars == <<limiter, map_order, side_tables, search_calls, cleaner, daemon, run>>
histVars == <<remarked, reset_cleared>>
progVars == <<storeVars, store_ops, histVars, tickVars, reactVars, outsider_log>>
vars == <<progVars, auxVars>>

\* ------------------------------------------------------------ small helpers
Range(s) == {s[i] : i \in 1..Len(s)}
Put(f, k, v) == [x \in (DOMAIN f) \cup {k} |-> IF x = k THEN v ELSE f[x]]
EmptyMap == [x \in {} |-> 0]

\* =================================================================== Store
\* database.py is_pushed: SELECT 1 FROM push_history WHERE illust_id = ?
is_pushed_never(id) == FALSE
is_pushed(id) == push_history[id] # <<>>

\* ids with a row in push_history
PushedIds == {id \in Works : push_history[id] # <<>>}

\* database.py mark_pushed: INSERT OR REPLACE on the primary key illust_id
\* (the row of the id, if any, is deleted and the new row inserted)
mark_pushed_append(rows, id, source) == [rows EXCEPT ![id] = Append(@, source)]
mark_pushed(rows, id, source) == [rows EXCEPT ![id] = <<source>>]

\* database.py adjust_tag_weight: upsert, weight = weight + delta
adjust_tag_weight(profile, tag, delta) ==
    IF tag \in DOMAIN profile
    THEN [profile EXCEPT ![tag] = @ + delta]
    ELSE Put(profile, tag, delta)

\* database.py increment_tag_dislike: upsert, dislike_count = dislike_count + 1
increment_tag_dislike(bl, tag) ==
    IF tag \in DOMAIN bl THEN [bl EXCEPT ![tag] = @ + 1] ELSE Put(bl, tag, 1)

\* database.py get_blacklisted_tags: SELECT tag ... WHERE dislike_count >= 1
get_blacklisted_tags(bl) == {tag \in DOMAIN bl : bl[tag] >= 1}

\* database.py record_feedback: INSERT OR REPLACE on illust_id
record_feedback(fb, id, action) == Put(fb, id, action)

\* database.py cache_illust: INSERT OR REPLACE on illust_id
cache_illust(cache, id, tags) == Put(cache, id, tags)

\* database.py get_cached_illust_tags: the row's tags, None without a row
\* or with an empty column (<<>> stands for None)
get_cached_illust_tags(id) ==
    IF id \in DOMAIN illust_cache THEN illust_cache[id] ELSE <<>>

\* profile written by a rebuild (profiler.build_profile -> update_xp_profile)
RebuiltProfile == [t \in TagNames |-> IF t = "t1" THEN 2 ELSE 1]

\* utils.py AsyncRateLimiter.__init__ lines 129-135: a full bucket.  Time is
\* counted in token periods (1 / rate seconds), so rate * elapsed = elapsed.
\* returned and jittered are history: per instant, the acquire calls that
\* returned at it, and whether any call slept a non-zero jitter.
LimiterInit ==
    limiter = [tokens |-> max_tokens, last_update |-> 0, now |-> 0,
               returned |-> [t \in 0..MaxTime |-> 0], jittered |-> FALSE]

\* telegram.py line 128: the map starts empty (a dict keeps insertion order)
MapOrderInit == map_order = [keys |-> <<>>, last |-> "none"]

\* database.py init_db lines 48-52, 85-89, 99-103: the tables start empty
SideTablesInit ==
    side_tables = [ai_tag_cache |-> EmptyMap, bookmarks |-> {}, system_state |-> EmptyMap]

\* profiler.ai_processor.occurred_errors is empty before the first tick.
\* occurred: a batch of the cleaner failed in the tick; closed and alerted are
\* history: main_task returned, and the notifiers the summary was sent to;
\* replays is history: <<error id, outcome>> of the retry_ai replays.
CleanerInit ==
    cleaner = [occurred |-> FALSE, closed |-> FALSE, alerted |-> {}, replays |-> {}]

\* main.py run_scheduler lines 372-391: the job runs main_task on the cron of
\* the configuration (default "0 12 * * *").  spawned and acks are history:
\* the main_task tasks created, and what the handlers confirmed to the chat.
\* lines 355-362: the Telegram polling is started and the OneBot listener
\* task is created.  exits is history: the unexpected exits of listener loops.
\* lines 393-397: the scheduler is started and run_scheduler sleeps (phase
\* "serving"), with the platform client and the notifiers open.
\* main.py run_scheduler line 373: the default of scheduler.cron, split
DefaultCron == <<"0", "12", "*", "*", "*">>

\* main.py run_scheduler lines 376-383: the trigger takes the first five
\* fields by position; a "*" in the last three is passed as None, which the
\* trigger reads as "*"
CronTrigger(parts) ==
    [minute |-> parts[1], hour |-> parts[2], day |-> parts[3],
     month |-> parts[4], day_of_week |-> parts[5]]

\* ob is the OneBot notifier's _session, _ws and _running after connect and
\* start_listening (onebot.py lines 59-63 and 273-278); tg_app is the Telegram
\* notifier's _app after start_polling.  closes, after_first and close_error
\* are history: the calls of each notifier's stop operation, the notifier as
\* its first call left it, and whether a call raised.
\* jobs, cron_expr and exit_code: the jobs registered with the scheduler, the
\* configured expression, and the exit status once the process has ended
\* (0 while it runs)
DaemonInit ==
    daemon = [trigger |-> "0 12 * * *", spawned |-> 0, acks |-> {},
              tg_polling |-> TRUE, ob_listening |-> TRUE,
              consecutive_errors |-> 0, exits |-> 0,
              phase |-> "serving", scheduler |-> "running",
              client_open |-> TRUE, open_notifiers |-> Range(notifiers),
              cron_expr |-> DefaultCron, jobs |-> {CronTrigger(DefaultCron)},
              exit_code |-> 0,
              ob |-> [session |-> "open", ws |-> "open", running |-> TRUE],
              tg_app |-> "running",
              closes |-> [n \in Range(notifiers) |-> 0],
              after_first |-> [n \in Range(notifiers) |-> <<>>],
              close_error |-> FALSE]

\* fetcher.py discover: no call in progress
DiscoverIdle ==
    [pc |-> "idle", xp_tags |-> <<>>, limit |-> 0, top_pairs |-> <<>>,
     used_tags |-> {}, all_illusts |-> 0, remaining_limit |-> 0, rounds |-> 0,
     queries |-> 0, error |-> "none"]

\* utils.py retry_async: no call of a wrapped function in progress.  calls,
\* failed, waits and errors are history: the invocations of the function,
\* how many of them raised, the sleeps, and the exceptions in order
RetryIdle ==
    [pc |-> "idle", max_retries |-> 0, delay |-> 0, backoff |-> 0,
     attempt |-> 0, current_delay |-> 0, last_exception |-> "none",
     raised |-> "none", calls |-> 0, failed |-> 0, waits |-> <<>>]

\* telegram.py _retry_on_flood: no call in progress.  now is the time since
\* the call began; calls, not_before and early are history: the invocations,
\* the earliest start a flood-control answer allows for the next one, and
\* whether an invocation started before it
FloodIdle ==
    [pc |-> "idle", max_retries |-> 0, attempt |-> 0, wait |-> 0, now |-> 0,
     raised |-> "none", calls |-> 0, retried_after |-> {}, not_before |-> 0,
     early |-> FALSE]

\* the recipients a notifier may be configured with: the Telegram chat_ids,
\* the OneBot targets (1 the private one, 2 the group), in the order the
\* code loops over them
Recipients == {1, 2}

\* a notifier's send: nothing sent yet.  delivered is history: per work and
\* recipient, the messages carrying the work that reached the recipient;
\* success_ids is what send returned
SendIdle ==
    [notifier |-> "none", illusts |-> {}, recipients |-> {},
     delivered |-> [w \in Works |-> [r \in Recipients |-> 0]],
     success_ids |-> {}]

\* telegram.py, the search wizard of the admin and the commands that force
\* the batch mode: step is the step of the admin's session (line 1100),
\* original_mode the local of the command in progress.  outcome, commands,
\* mode_before and late_input are history: how the last search run ended,
\* the commands finished, batch_mode before the first command began, and
\* whether a reply was taken as wizard input after a run had finished
SearchIdle ==
    [pc |-> "idle", cmd |-> "none", step |-> "none", original_mode |-> "none",
     outcome |-> "none", commands |-> 0, mode_before |-> "unset",
     late_input |-> FALSE]

RunInit ==
    run = [discover |-> DiscoverIdle, retry |-> RetryIdle, flood |-> FloodIdle,
           send |-> SendIdle, search |-> SearchIdle]

AuxInit ==
    /\ LimiterInit /\ MapOrderInit /\ SideTablesInit /\ search_calls = <<>>
    /\ CleanerInit
    /\ DaemonInit
    /\ RunInit

StoreInit ==
    /\ push_history = [id \in Works |-> <<>>]
    /\ xp_profile = EmptyMap
    /\ xp_tag_pairs = {}
    /\ tag_mapping_stats = EmptyMap
    /\ ai_error_logs = <<>>
    /\ feedback = EmptyMap
    /\ tag_blacklist = EmptyMap
    /\ illust_cache = EmptyMap

TickIdle == [pc |-> "idle", filtered |-> {}, all_sent_ids |-> {}, to_mark |-> {},
             next_notifier |-> 1,
             \* history: ids in push history when the tick filtered, strategies
             \* that produced each filtered work, ids some notifier reported sent
             seen_pushed |-> {}, origin |-> [w \in Works |-> {}], reported |-> {}]

\* the fetch phase before its first query; failed / error / got are history:
\* strategies with a failed query, what the propagating failure was, and the
\* works returned by the queries that succeeded
FetchIdle == [pc |-> "idle", queries |-> 0,
              results |-> [st \in Strategies |-> {}],
              failed |-> {}, error |-> "none",
              got |-> [st \in Strategies |-> {}]]

TickInitIdle ==
    /\ fetch = FetchIdle
    /\ admin_texts = {}
    /\ tick = [t \in Ticks |-> TickIdle]
    /\ overlapped = FALSE
    /\ tick_sent = [w \in Works |-> 0]
    /\ cmd_log = [w \in Works |-> "none"]
    /\ recorded_origin = [w \in Works |-> {}]

NoTask == [pc |-> "idle", via |-> "none", id |-> 0, action |-> "none", user |-> 0,
           \* history of the reaction: apply_feedback ran, a platform call was
           \* attempted, a platform call failed, the chat was warned, it raised
           applied |-> FALSE, attempted |-> FALSE, mirror_failed |-> FALSE,
           warned |-> FALSE, raised |-> FALSE]
\* what is kept of a reaction once it was handled to its end
Done(t) == [via |-> t.via, mirror_failed |-> t.mirror_failed, warned |-> t.warned,
            raised |-> t.raised]
NoneDone == Done(NoTask)

\* telegram.py __init__ lines 136-141 and 1100
NotifierInit ==
    /\ batch_mode = "single"
    /\ pending_input = "none"
    /\ search_sessions = {}
    /\ daily_limit = 0

ReactInitIdle ==
    /\ allowed_users = {}
    /\ master_id = 0
    /\ message_illust_map = EmptyMap
    /\ task = NoTask
    /\ events = 0
    /\ apply_count = [w \in Works |-> 0]
    /\ bookmark_calls = [w \in Works |-> 0]
    /\ last_done = NoneDone
    /\ NotifierInit

\* ---- the Store operations as actions (SpecStore)
StoreStep ==
    /\ store_ops < MaxStoreOps
    /\ store_ops' = store_ops + 1
    /\ UNCHANGED <<tickVars, reactVars, outsider_log, auxVars>>

MarkPushed(id, source) ==
    /\ StoreStep
    /\ push_history' = mark_pushed(push_history, id, source)
    /\ remarked' = IF push_history[id] # <<>> THEN remarked \cup {id} ELSE remarked
    /\ UNCHANGED reset_cleared
    /\ UNCHANGED <<xp_profile, xp_tag_pairs, tag_mapping_stats, ai_error_logs,
                   feedback, tag_blacklist, illust_cache>>

\* a reset that also deletes the push history and the tag blacklist
ResetXpData_everything ==
    /\ StoreStep
    /\ reset_cleared' = (reset_cleared \/ xp_profile # EmptyMap)
    /\ UNCHANGED remarked
    /\ xp_profile' = EmptyMap
    /\ xp_tag_pairs' = {}
    /\ tag_mapping_stats' = EmptyMap
    /\ ai_error_logs' = <<>>
    /\ push_history' = [w \in Works |-> <<>>]
    /\ tag_blacklist' = EmptyMap
    /\ UNCHANGED <<feedback, illust_cache>>

\* database.py reset_xp_data
ResetXpData ==
    /\ StoreStep
    /\ reset_cleared' = (reset_cleared \/ xp_profile # EmptyMap)
    /\ UNCHANGED remarked
    /\ xp_profile' = EmptyMap
    /\ xp_tag_pairs' = {}
    /\ tag_mapping_stats' = EmptyMap
    /\ ai_error_logs' = <<>>
    /\ UNCHANGED <<push_history, feedback, tag_blacklist, illust_cache>>

\* database.py init_db: CREATE TABLE IF NOT EXISTS for every table
InitDb ==
    /\ StoreStep
    /\ UNCHANGED histVars
    /\ UNCHANGED storeVars

\* database.py update_xp_profile: DELETE FROM xp_profile, then insert
UpdateXpProfile(profile) ==
    /\ StoreStep
    /\ UNCHANGED histVars
    /\ xp_profile' = profile
    /\ UNCHANGED <<push_history, xp_tag_pairs, tag_mapping_stats, ai_error_logs,
                   feedback, tag_blacklist, illust_cache>>

AdjustTagWeight(tag, delta) ==
    /\ StoreStep
    /\ UNCHANGED histVars
    /\ xp_profile' = adjust_tag_weight(xp_profile, tag, delta)
    /\ UNCHANGED <<push_history, xp_tag_pairs, tag_mapping_stats, ai_error_logs,
                   feedback, tag_blacklist, illust_cache>>

\* database.py update_xp_tag_pairs: DELETE FROM xp_tag_pairs, then insert
UpdateXpTagPairs(pairs) ==
    /\ StoreStep
    /\ UNCHANGED histVars
    /\ xp_tag_pairs' = pairs
    /\ UNCHANGED <<push_history, xp_profile, tag_mapping_stats, ai_error_logs,
                   feedback, tag_blacklist, illust_cache>>

\* database.py update_tag_mapping_stats: upsert, frequency = frequency + 1
UpdateTagMappingStats(original, normalized) ==
    /\ StoreStep
    /\ UNCHANGED histVars
    /\ tag_mapping_stats' =
          IF <<normalized, original>> \in DOMAIN tag_mapping_stats
          THEN [tag_mapping_stats EXCEPT ![<<normalized, original>>] = @ + 1]
          ELSE Put(tag_mapping_stats, <<normalized, original>>, 1)
    /\ UNCHANGED <<push_history, xp_profile, xp_tag_pairs, ai_error_logs,
                   feedback, tag_blacklist, illust_cache>>

\* database.py add_ai_error: a new row with the default status 'pending'
AddAiError(tags) ==
    /\ StoreStep
    /\ UNCHANGED histVars
    /\ ai_error_logs' = Append(ai_error_logs, [tags |-> tags, status |-> "pending"])
    /\ UNCHANGED <<push_history, xp_profile, xp_tag_pairs, tag_mapping_stats,
                   feedback, tag_blacklist, illust_cache>>

RecordFeedback(id, action) ==
    /\ StoreStep
    /\ UNCHANGED histVars
    /\ feedback' = record_feedback(feedback, id, action)
    /\ UNCHANGED <<push_history, xp_profile, xp_tag_pairs, tag_mapping_stats,
                   ai_error_logs, tag_blacklist, illust_cache>>

IncrementTagDislike(tag) ==
    /\ StoreStep
    /\ UNCHANGED histVars
    /\ tag_blacklist' = increment_tag_dislike(tag_blacklist, tag)
    /\ UNCHANGED <<push_history, xp_profile, xp_tag_pairs, tag_mapping_stats,
                   ai_error_logs, feedback, illust_cache>>

CacheIllust(id) ==
    /\ StoreStep
    /\ UNCHANGED histVars
    /\ illust_cache' = cache_illust(illust_cache, id, IllustTags(id))
    /\ UNCHANGED <<push_history, xp_profile, xp_tag_pairs, tag_mapping_stats,
                   ai_error_logs, feedback, tag_blacklist>>

InitStore ==
    /\ StoreInit
    /\ store_ops = 0
    /\ remarked = {}
    /\ reset_cleared = FALSE
    /\ TickInitIdle
    /\ ReactInitIdle
    /\ outsider_log = {}
    /\ AuxInit

NextStore ==
    \/ \E id \in Works, s \in Sources : MarkPushed(id, s)
    \/ ResetXpData
    \/ InitDb
    \/ UpdateXpProfile(RebuiltProfile)
    \/ \E t \in TagNames, d \in {-1, 1} : AdjustTagWeight(t, d)
    \/ UpdateXpTagPairs({<<"t1", "t2", 1>>})
    \/ \E t \in TagNames : UpdateTagMappingStats(t, "t1")
    \/ AddAiError(<<"t1">>)
    \/ \E id \in Works, a \in Actions : RecordFeedback(id, a)
    \/ \E t \in TagNames : IncrementTagDislike(t)
    \/ \E id \in Works : CacheIllust(id)

SpecStore == InitStore /\ [][NextStore]_vars

\* ---- the tables reset_xp_data leaves alone, and the reset (SpecReset)
SideFrame == UNCHANGED <<run, progVars, limiter, map_order, search_calls, cleaner, daemon>>

\* database.py update_ai_cache: INSERT OR REPLACE on original_tag
UpdateAiCache(tag, cleaned) ==
    /\ side_tables' = [side_tables EXCEPT
                          !.ai_tag_cache = Put(side_tables.ai_tag_cache, tag, cleaned)]
    /\ SideFrame

\* database.py mark_bookmark_scanned: INSERT OR IGNORE on illust_id
MarkBookmarkScanned(id) ==
    /\ side_tables' = [side_tables EXCEPT !.bookmarks = @ \cup {id}]
    /\ SideFrame

\* database.py set_state: INSERT OR REPLACE on key
SetState(key, value) ==
    /\ side_tables' = [side_tables EXCEPT
                          !.system_state = Put(side_tables.system_state, key, value)]
    /\ SideFrame

\* main.py main, --reset-xp (lines 423-429): init_db, then reset_xp_data,
\* on a database that earlier runs have filled
NextReset ==
    \/ InitDb
    \/ ResetXpData
    \/ MarkPushed(1, "search")
    \/ UpdateXpProfile(RebuiltProfile)
    \/ UpdateXpTagPairs({<<"t1", "t2", 1>>})
    \/ UpdateTagMappingStats("t1", "t1")
    \/ AddAiError(<<"t1">>)
    \/ RecordFeedback(1, "like")
    \/ IncrementTagDislike("t1")
    \/ CacheIllust(1)
    \/ UpdateAiCache("t1", "t2")
    \/ MarkBookmarkScanned(1)
    \/ SetState("last_scan", "done")

SpecReset == InitStore /\ [][NextReset]_vars

\* ==================================================== orchestrator: the tick
\* filter.ContentFilter.filter, step 1 (hard exclude): a candidate already
\* pushed (by is_pushed) is dropped.  The later rules only drop further
\* candidates, which a smaller candidate list stands for.
content_filter(candidates) == {w \in candidates : ~is_pushed(w)}

\* main.py main_task, lines 278-283: all_sent_ids.update(sent_ids), skipped
\* when the notifier's send raised
collect_last(all_sent, sent_ids, raised) == IF raised THEN {} ELSE sent_ids
collect(all_sent, sent_ids, raised) ==
    IF raised THEN all_sent ELSE all_sent \cup sent_ids

\* main.py main_task, line 291: the source written with the push record
push_source(w) == IF IllustUser(w) \in manual_subs THEN "subscription" ELSE "search"

\* history of deliveries: a tick run reported the works of S as sent
TickDelivered(S) ==
    /\ tick_sent' = [w \in Works |->
                        IF w \in S /\ tick_sent[w] < 2
                        THEN tick_sent[w] + 1 ELSE tick_sent[w]]
    /\ cmd_log' = [w \in Works |->
                        IF w \in S /\ cmd_log[w] = "cmd" THEN "again" ELSE cmd_log[w]]

\* history of deliveries: an admin command reported the works of S as sent
CmdDelivered(S) ==
    /\ cmd_log' = [w \in Works |->
                        IF w \notin S THEN cmd_log[w]
                        ELSE IF cmd_log[w] = "none" THEN "cmd" ELSE "again"]
    /\ UNCHANGED tick_sent

TickFrame == UNCHANGED <<auxVars, store_ops, histVars, reactVars, outsider_log, fetchVars>>

\* main_task lines 188-206: the profile rebuild that opens the tick
\* (profiler.build_profile writes the profile through update_xp_profile)
TickStart(t) ==
    /\ tick[t].pc \in {"idle", "done"}
    /\ tick' = [tick EXCEPT ![t] = [TickIdle EXCEPT !.pc = "fetch"]]
    /\ overlapped' = (overlapped \/ \E u \in Ticks \ {t} : tick[u].pc \notin {"idle", "done"})
    /\ xp_profile' = RebuiltProfile
    /\ UNCHANGED <<push_history, xp_tag_pairs, tag_mapping_stats, ai_error_logs,
                   feedback, tag_blacklist, illust_cache>>
    /\ UNCHANGED <<tick_sent, cmd_log, recorded_origin>>
    /\ TickFrame

\* main_task lines 320-321: an exception before the push block ends the tick
TickFail(t) ==
    /\ tick[t].pc = "fetch"
    /\ tick' = [tick EXCEPT ![t].pc = "done"]
    /\ UNCHANGED <<storeVars, overlapped, tick_sent, cmd_log, recorded_origin>>
    /\ TickFrame

\* main_task lines 233-271: the three strategies produce the candidates (o maps
\* each work to the strategies that returned it), the filter runs, and the
\* push block is entered when something is left
TickFilter(t, o) ==
    /\ tick[t].pc = "fetch"
    /\ LET filtered == content_filter({w \in Works : o[w] # {}})
       IN tick' = [tick EXCEPT
                     ![t].pc = IF filtered # {} THEN "cache" ELSE "done",
                     ![t].filtered = filtered,
                     ![t].origin = [w \in Works |-> IF w \in filtered THEN o[w] ELSE {}],
                     ![t].seen_pushed = PushedIds]
    /\ UNCHANGED <<storeVars, overlapped, tick_sent, cmd_log, recorded_origin>>
    /\ TickFrame

\* a push block that goes to the sends without caching
TickCache_skipped(t) ==
    /\ tick[t].pc = "cache"
    /\ tick' = [tick EXCEPT ![t].pc = "send"]
    /\ UNCHANGED <<storeVars, overlapped, tick_sent, cmd_log, recorded_origin>>
    /\ TickFrame

\* main_task lines 274-275: cache_illust for every filtered work
TickCache(t) ==
    /\ tick[t].pc = "cache"
    /\ tick' = [tick EXCEPT ![t].pc = "send"]
    /\ illust_cache' = [id \in (DOMAIN illust_cache) \cup tick[t].filtered |->
                           IF id \in tick[t].filtered THEN IllustTags(id)
                           ELSE illust_cache[id]]
    /\ UNCHANGED <<push_history, xp_profile, xp_tag_pairs, tag_mapping_stats,
                   ai_error_logs, feedback, tag_blacklist>>
    /\ UNCHANGED <<overlapped, tick_sent, cmd_log, recorded_origin>>
    /\ TickFrame

\* main_task lines 277-296: one notifier's send; it reports sent_ids or raises.
\* After the last notifier the ids to record are fixed.
TickSend(t, sent_ids, raised) ==
    /\ tick[t].pc = "send"
    /\ sent_ids \subseteq tick[t].filtered
    /\ LET n == tick[t].next_notifier
           all_sent == collect(tick[t].all_sent_ids, sent_ids, raised)
           now == IF raised THEN {} ELSE sent_ids \ tick[t].reported
           last == (n = Len(notifiers))
       IN /\ tick' = [tick EXCEPT
                        ![t].all_sent_ids = all_sent,
                        ![t].reported = @ \cup now,
                        ![t].next_notifier = n + 1,
                        ![t].to_mark = IF last THEN all_sent ELSE {},
                        ![t].pc = IF ~last THEN "send"
                                  ELSE IF all_sent # {} THEN "mark" ELSE "done"]
          /\ TickDelivered(now)
    /\ UNCHANGED <<storeVars, overlapped, recorded_origin>>
    /\ TickFrame

\* main_task lines 288-292: mark_pushed(pid, source) for one id of all_sent_ids
TickMark(t, pid) ==
    /\ tick[t].pc = "mark"
    /\ pid \in tick[t].to_mark
    /\ push_history' =
          IF pid \in tick[t].filtered
          THEN mark_pushed(push_history, pid, push_source(pid))
          ELSE push_history
    /\ recorded_origin' = [recorded_origin EXCEPT ![pid] = tick[t].origin[pid]]
    /\ tick' = [tick EXCEPT
                  ![t].to_mark = @ \ {pid},
                  ![t].pc = IF tick[t].to_mark = {pid} THEN "done" ELSE "mark"]
    /\ UNCHANGED <<xp_profile, xp_tag_pairs, tag_mapping_stats, ai_error_logs,
                   feedback, tag_blacklist, illust_cache>>
    /\ UNCHANGED <<overlapped, tick_sent, cmd_log>>
    /\ TickFrame

\* ================================================ admin commands that send
\* telegram.py lines 703, 895, 1021, ...: the allow-list test of every handler
\* (self.allowed_users and user_id not in self.allowed_users is the refusal)
Authorized_always(user) == TRUE
Authorized(user) == allowed_users = {} \/ user \in allowed_users

\* history: the sender is outside a configured allow-list, and what an update
\* of theirs was answered with
Outsider(user) == allowed_users # {} /\ user \notin allowed_users
RespondTo(user, kind, response) ==
    outsider_log' = IF Outsider(user)
                    THEN outsider_log \cup {<<kind, response>>}
                    ELSE outsider_log

CmdFrame == UNCHANGED <<auxVars, storeVars, store_ops, histVars, tick, overlapped, recorded_origin,
                        fetchVars, reactVars>>

\* telegram.py cmd_push lines 1019-1051, `/push <id>`: the work is fetched and
\* handed to send; nothing is read from or written to push history
CmdPushId(user, w, sent) ==
    /\ IF ~Authorized(user)
       THEN /\ RespondTo(user, "command", "no_permission")
            /\ UNCHANGED <<cmd_log, tick_sent>>
       ELSE /\ RespondTo(user, "command", "reply")
            /\ IF sent THEN CmdDelivered({w}) ELSE UNCHANGED <<cmd_log, tick_sent>>
    /\ CmdFrame

\* telegram.py cmd_push lines 1052-1088, `/push a <artist>`: a sample of the
\* artist's works is handed to send; push history is neither read nor written
CmdPushArtist(user, sampled, sent_ids) ==
    /\ sampled # {}
    /\ \E a \in {IllustUser(w) : w \in Works} : \A w \in sampled : IllustUser(w) = a
    /\ sent_ids \subseteq sampled
    /\ IF ~Authorized(user)
       THEN /\ RespondTo(user, "command", "no_permission")
            /\ UNCHANGED <<cmd_log, tick_sent>>
       ELSE /\ RespondTo(user, "command", "reply")
            /\ CmdDelivered(sent_ids)
    /\ CmdFrame

\* telegram.py cmd_search lines 1103-1117 and _do_search lines 1140-1238: the
\* batch is filtered by is_pushed and handed to send; push history is not written
CmdSearch(user, batch, sent_ids) ==
    /\ sent_ids \subseteq content_filter(batch)
    /\ IF ~Authorized(user)
       THEN /\ RespondTo(user, "command", "no_permission")
            /\ UNCHANGED <<cmd_log, tick_sent>>
       ELSE /\ RespondTo(user, "command", "reply")
            /\ CmdDelivered(sent_ids)
    /\ CmdFrame

\* ------------------------------------------------------------- SpecTick
\* The strategies returning a work do not influence what a tick does with it
\* (main_task line 248 concatenates the three lists), so the overlapping ticks
\* are explored with search results only; SpecSource tells the strategies apart.
OriginsSearch == [Works -> {{}, {"search"}}]
OriginsAll == [Works -> SUBSET Strategies]

InitTick ==
    /\ StoreInit
    /\ store_ops = 0
    /\ remarked = {}
    /\ reset_cleared = FALSE
    /\ TickInitIdle
    /\ ReactInitIdle
    /\ outsider_log = {}
    /\ AuxInit

NextTick ==
    \/ \E t \in Ticks : TickStart(t)
    \/ \E t \in Ticks : TickFail(t)
    \/ \E t \in Ticks, o \in OriginsSearch : TickFilter(t, o)
    \/ \E t \in Ticks : TickCache(t)
    \/ \E t \in Ticks, S \in SUBSET Works, r \in BOOLEAN : TickSend(t, S, r)
    \/ \E t \in Ticks, pid \in Works : TickMark(t, pid)

SpecTick == InitTick /\ [][NextTick]_vars

\* ----------------------------------------------------------- SpecSource
NextSource ==
    \/ TickStart(1)
    \/ TickFail(1)
    \/ \E o \in OriginsAll : TickFilter(1, o)
    \/ TickCache(1)
    \/ \E S \in SUBSET Works, r \in BOOLEAN : TickSend(1, S, r)
    \/ \E pid \in Works : TickMark(1, pid)

SpecSource == InitTick /\ [][NextSource]_vars

\* ------------------------------------------------------------- SpecPush
NextPush ==
    \/ TickStart(1)
    \/ TickFail(1)
    \/ \E o \in OriginsSearch : TickFilter(1, o)
    \/ TickCache(1)
    \/ \E S \in SUBSET Works, r \in BOOLEAN : TickSend(1, S, r)
    \/ \E pid \in Works : TickMark(1, pid)
    \/ \E u \in Users, w \in Works, ok \in BOOLEAN : CmdPushId(u, w, ok)
    \/ \E u \in Users, S \in SUBSET Works : \E R \in SUBSET S : CmdPushArtist(u, S, R)
    \/ \E u \in Users, S \in SUBSET Works : \E R \in SUBSET S : CmdSearch(u, S, R)

SpecPush == InitTick /\ [][NextPush]_vars

\* ===================================================== utils: rate limiter
Min(a, b) == IF a < b THEN a ELSE b

LimiterFrame == UNCHANGED <<run, progVars, map_order, side_tables, search_calls, cleaner, daemon>>

\* utils.py AsyncRateLimiter.acquire lines 137-157.  The lock is held to the
\* end, the sleeps included, so the calls of concurrent callers run one after
\* the other.  delay is the random jitter (0 when disabled or zero).
acquire(delay) ==
    LET now == limiter.now
        elapsed == now - limiter.last_update
        tokens == Min(max_tokens, limiter.tokens + elapsed)
        wait_time == IF tokens < 1 THEN 1 - tokens ELSE 0
        back == now + wait_time + delay
    IN /\ back <= MaxTime
       /\ limiter' = [tokens |-> IF tokens < 1 THEN 0 ELSE tokens - 1,
                      last_update |-> now,
                      now |-> back,
                      returned |-> [limiter.returned EXCEPT ![back] = @ + 1],
                      jittered |-> limiter.jittered \/ delay > 0]
       /\ LimiterFrame

\* the clock advances while no caller is in acquire
TimePasses ==
    /\ limiter.now < MaxTime
    /\ limiter' = [limiter EXCEPT !.now = @ + 1]
    /\ LimiterFrame

InitLimiter == InitStore

NextLimiter ==
    \/ \E delay \in 0..1 : acquire(delay)
    \/ TimePasses

SpecLimiter == InitLimiter /\ [][NextLimiter]_vars

\* ================================================ notifier: the message map
MessageIds == 1..MaxMessages

\* dict assignment d[m] = id: a new key goes last, a known key keeps its place
Assign(keys, m) == IF m \in Range(keys) THEN keys ELSE Append(keys, m)

\* telegram.py lines 2464-2467: above the limit, the first half-limit keys go
Evict(keys) ==
    IF Len(keys) > MapLimit
    THEN SubSeq(keys, (MapLimit \div 2) + 1, Len(keys))
    ELSE keys

Evict_never(keys) == keys

Restrict(map, keys) == [m \in Range(keys) |-> map[m]]

MapFrame == UNCHANGED <<run, limiter, side_tables, search_calls, cleaner, daemon, storeVars, store_ops, histVars, tickVars,
                        allowed_users, master_id, task, events, apply_count,
                        bookmark_calls, last_done, notifierVars, outsider_log>>

\* one send operation to the single configured chat; sent is whether the
\* platform returned a message, m its message id
Remember(kind, sent, m, id, keys) ==
    /\ map_order' = [keys |-> keys, last |-> kind]
    /\ message_illust_map' =
           Restrict(IF sent THEN Put(message_illust_map, m, id)
                    ELSE message_illust_map, keys)
    /\ MapFrame

\* telegram.py _send_photo lines 2415-2469
SendPhoto(sent, m, id) ==
    Remember("photo", sent, m, id,
             Evict(IF sent THEN Assign(map_order.keys, m) ELSE map_order.keys))

\* telegram.py _send_video lines 2471-2570 (the paths that send the animation)
SendVideo(sent, m, id) ==
    Remember("animation", sent, m, id,
             IF sent THEN Assign(map_order.keys, m) ELSE map_order.keys)

\* telegram.py _send_media_group lines 2572-2621: nothing is remembered
SendMediaGroup(id) ==
    Remember("album", FALSE, 1, id, map_order.keys)

\* telegram.py push_illusts lines 2297-2387, one work of the chain
PushIllusts(sent, m, id) ==
    Remember("chained", sent, m, id,
             IF sent THEN Assign(map_order.keys, m) ELSE map_order.keys)

InitMap == InitStore

NextMap ==
    \E sent \in BOOLEAN, m \in MessageIds, id \in Works :
        \/ SendPhoto(sent, m, id)
        \/ SendVideo(sent, m, id)
        \/ SendMediaGroup(id)
        \/ PushIllusts(sent, m, id)

SpecMap == InitMap /\ [][NextMap]_vars

\* ============================================ fetcher: the search thresholds
Max(a, b) == IF a > b THEN a ELSE b

\* normalized tag weights, in tenths
Weights == {0, 2, 5, 10}
\* fetcher.bookmark_threshold["search"]: the default 1000 (fetcher.py line 30,
\* main.py line 226), 0 under --test (main.py line 438), and a small one
Bases == {0, 150, 1000}

\* fetcher.py _adaptive_threshold lines 41-68 (weight in tenths): defined,
\* replaced by the definition at lines 286-297, and called by nothing
adaptive_threshold(base, tag_weight, is_combination) ==
    LET multiplier == Max(3, tag_weight)
    IN  IF is_combination
        THEN Max(100, (base * multiplier * 5) \div 100)
        ELSE Max(100, (base * multiplier) \div 10)

\* fetcher.py discover line 113: threshold = bookmark_threshold["search"] // 2
pair_threshold(base, tag_weight) == base \div 2
\* fetcher.py discover line 171: bookmark_threshold = bookmark_threshold["search"]
single_threshold(base, tag_weight) == base

ThresholdFrame == UNCHANGED <<run, progVars, limiter, map_order, side_tables, cleaner, daemon>>

\* fetcher.py discover lines 96-143: one pair query, for a pair whose tags
\* weigh tag_weight
DiscoverPairSearch(base, tag_weight) ==
    /\ Len(search_calls) < MaxQueries
    /\ search_calls' = Append(search_calls,
           [pair |-> TRUE, base |-> base, weight |-> tag_weight,
            bookmark_threshold |-> pair_threshold(base, tag_weight)])
    /\ ThresholdFrame

\* fetcher.py discover lines 149-175: one single-tag query
DiscoverSingleSearch(base, tag_weight) ==
    /\ Len(search_calls) < MaxQueries
    /\ search_calls' = Append(search_calls,
           [pair |-> FALSE, base |-> base, weight |-> tag_weight,
            bookmark_threshold |-> single_threshold(base, tag_weight)])
    /\ ThresholdFrame

NextThreshold ==
    \E base \in Bases, tag_weight \in Weights :
        \/ DiscoverPairSearch(base, tag_weight)
        \/ DiscoverSingleSearch(base, tag_weight)

SpecThreshold == InitStore /\ [][NextThreshold]_vars

\* ======================================================= fetcher: discover
\* the limit of one pair query (fetcher.py line 142)
PairSearchLimit == 30
\* the single-tag rounds (fetcher.py line 150)
SingleRounds == 3

RunFrame == UNCHANGED <<progVars, limiter, map_order, side_tables, search_calls,
                        cleaner, daemon>>

\* top-N lists handed to discover: empty, all weights zero, and weighted
XpTagLists ==
    {<<>>, <<<<"t1", 0>>>>, <<<<"t1", 0>>, <<"t2", 0>>>>, <<<<"t1", 2>>, <<"t2", 1>>>>}
\* the --test limit (main.py line 439), a small one, and fetcher.py's default
DiscoverLimits == {0, 1, 10, 50}

\* what client.search_illusts(limit = lim) may return: nothing, one work, or
\* as many as asked for
Returned(lim) == {0, lim} \cup (IF lim >= 1 THEN {1} ELSE {})

RECURSIVE get_top_tag_pairs(_)
\* database.py get_top_tag_pairs lines 225-232: the rows by falling weight
get_top_tag_pairs(rows) ==
    IF rows = {} THEN <<>>
    ELSE LET r == CHOOSE x \in rows : \A y \in rows : x[3] >= y[3]
         IN <<r>> \o get_top_tag_pairs(rows \ {r})

RECURSIVE SumWeights(_)
SumWeights(weighted_tags) ==
    IF weighted_tags = <<>> THEN 0
    ELSE Head(weighted_tags)[2] + SumWeights(Tail(weighted_tags))

\* fetcher.py _weighted_sample lines 252-284 with k = 1: the outcomes of one
\* sample.  A list of at most one tag is returned as it is; otherwise every
\* weight is divided by the total, which raises for a total of zero, and a
\* tag of positive probability is drawn
weighted_sample(weighted_tags) ==
    IF Len(weighted_tags) <= 1
    THEN {[raised |-> FALSE, tags |-> [i \in 1..Len(weighted_tags) |-> weighted_tags[i][1]]]}
    ELSE IF SumWeights(weighted_tags) = 0
    THEN {[raised |-> TRUE, tags |-> <<>>]}
    ELSE {[raised |-> FALSE, tags |-> <<weighted_tags[i][1]>>] :
              i \in {j \in 1..Len(weighted_tags) : weighted_tags[j][2] > 0}}

\* fetcher.py discover lines 82-89: an empty list returns at once, otherwise
\* the top pairs are read
Discover(xp_tags, limit) ==
    /\ run.discover.pc \in {"idle", "returned", "raised"}
    /\ run' = [run EXCEPT !.discover =
                 IF xp_tags = <<>>
                 THEN [DiscoverIdle EXCEPT !.pc = "returned", !.limit = limit]
                 ELSE [DiscoverIdle EXCEPT !.pc = "pairs", !.xp_tags = xp_tags,
                                           !.limit = limit,
                                           !.top_pairs = get_top_tag_pairs(xp_tag_pairs)]]
    /\ RunFrame

\* fetcher.py discover lines 92-144, one round of the pair loop: the loop is
\* left at 60% of the limit, else the pair is searched with limit 30 (n works
\* come back, or the search raises)
DiscoverPair(n, ok) ==
    LET d == run.discover IN
    /\ d.pc = "pairs"
    /\ d.top_pairs # <<>>
    /\ 10 * d.all_illusts < 6 * d.limit
    /\ n \in Returned(PairSearchLimit)
    /\ run' = [run EXCEPT !.discover =
                 IF ok
                 THEN [d EXCEPT !.top_pairs = Tail(@),
                                !.used_tags = @ \cup {Head(d.top_pairs)[1], Head(d.top_pairs)[2]},
                                !.all_illusts = @ + n,
                                !.queries = @ + 1]
                 ELSE [d EXCEPT !.pc = "raised", !.queries = @ + 1,
                                !.error = "search"]]
    /\ RunFrame

\* fetcher.py discover lines 92-94 and 147-150: the pair loop ends, and the
\* single-tag rounds are entered when something remains of the limit
DiscoverPairsDone ==
    LET d == run.discover IN
    /\ d.pc = "pairs"
    /\ d.top_pairs = <<>> \/ 10 * d.all_illusts >= 6 * d.limit
    /\ run' = [run EXCEPT !.discover =
                 [d EXCEPT !.remaining_limit = d.limit - d.all_illusts,
                           !.pc = IF d.limit - d.all_illusts > 0
                                  THEN "singles" ELSE "returned"]]
    /\ RunFrame

\* fetcher.py discover lines 150-175, one of the three rounds: a tag is
\* sampled, a tag of a searched pair is skipped, else it is searched with
\* limit remaining_limit // 2
DiscoverSingle(s, n, ok) ==
    LET d == run.discover IN
    /\ d.pc = "singles"
    /\ d.rounds < SingleRounds
    /\ s \in weighted_sample(d.xp_tags)
    /\ n \in Returned(d.remaining_limit \div 2)
    /\ run' = [run EXCEPT !.discover =
                 IF s.raised
                 THEN [d EXCEPT !.pc = "raised", !.error = "ZeroDivisionError"]
                 ELSE IF s.tags = <<>> \/ s.tags[1] \in d.used_tags
                 THEN [d EXCEPT !.rounds = @ + 1]
                 ELSE IF ok
                 THEN [d EXCEPT !.rounds = @ + 1, !.all_illusts = @ + n,
                                !.queries = @ + 1]
                 ELSE [d EXCEPT !.pc = "raised", !.queries = @ + 1,
                                !.error = "search"]]
    /\ RunFrame

\* fetcher.py discover lines 177-183: all_illusts is returned
DiscoverRoundsDone ==
    /\ run.discover.pc = "singles"
    /\ run.discover.rounds = SingleRounds
    /\ run' = [run EXCEPT !.discover.pc = "returned"]
    /\ RunFrame

\* the profiler's pairs are written between calls of discover
DiscoverPairsWritten ==
    /\ run.discover.pc \in {"idle", "returned", "raised"}
    /\ UpdateXpTagPairs({<<"t1", "t2", 1>>})

SampleOutcomes ==
    UNION {weighted_sample(x) : x \in XpTagLists}

NextDiscover ==
    \/ \E xp_tags \in XpTagLists, limit \in DiscoverLimits : Discover(xp_tags, limit)
    \/ \E n \in 0..PairSearchLimit, ok \in BOOLEAN : DiscoverPair(n, ok)
    \/ DiscoverPairsDone
    \/ \E s \in SampleOutcomes, n \in 0..50, ok \in BOOLEAN : DiscoverSingle(s, n, ok)
    \/ DiscoverRoundsDone
    \/ DiscoverPairsWritten

SpecDiscover == InitStore /\ [][NextDiscover]_vars

\* ====================================================== utils: retry_async
MaxRetries == 2
Delays == {1, 2}
Backoffs == {1, 2, 3}
\* what the wrapped function raises
Exceptions == {"e1", "e2"}

RECURSIVE Pow(_, _)
Pow(b, i) == IF i = 0 THEN 1 ELSE b * Pow(b, i - 1)

\* utils.py retry_async lines 173-177: the wrapper is called
RetryCall(max_retries, delay, backoff) ==
    /\ run.retry.pc \in {"idle", "returned", "raised"}
    /\ run' = [run EXCEPT !.retry =
                 [RetryIdle EXCEPT !.pc = "calling", !.max_retries = max_retries,
                                   !.delay = delay, !.backoff = backoff,
                                   !.current_delay = delay]]
    /\ RunFrame

\* utils.py retry_async lines 177-182 and 189: one invocation of the wrapped
\* function (e is "none" when it returns).  Its result is returned; an
\* exception is kept, and after the last attempt the kept one is raised
RetryAttempt(e) ==
    LET r == run.retry IN
    /\ r.pc = "calling"
    /\ run' = [run EXCEPT !.retry =
                 IF e = "none"
                 THEN [r EXCEPT !.pc = "returned", !.calls = @ + 1]
                 ELSE IF r.attempt < r.max_retries
                 THEN [r EXCEPT !.pc = "sleeping", !.calls = @ + 1,
                                !.failed = @ + 1, !.last_exception = e]
                 ELSE [r EXCEPT !.pc = "raised", !.calls = @ + 1,
                                !.failed = @ + 1, !.last_exception = e,
                                !.raised = e]]
    /\ RunFrame

\* a sleep that does not grow
RetrySleep_flat ==
    LET r == run.retry IN
    /\ r.pc = "sleeping"
    /\ run' = [run EXCEPT !.retry =
                 [r EXCEPT !.pc = "calling", !.attempt = @ + 1,
                           !.waits = Append(@, r.delay)]]
    /\ RunFrame

\* utils.py retry_async lines 183-188: the sleep of current_delay, which is
\* then multiplied by backoff, and the next round of the loop
RetrySleep ==
    LET r == run.retry IN
    /\ r.pc = "sleeping"
    /\ run' = [run EXCEPT !.retry =
                 [r EXCEPT !.pc = "calling", !.attempt = @ + 1,
                           !.waits = Append(@, r.current_delay),
                           !.current_delay = @ * r.backoff]]
    /\ RunFrame

NextRetryAsync ==
    \/ \E m \in 0..MaxRetries, d \in Delays, b \in Backoffs : RetryCall(m, d, b)
    \/ \E e \in Exceptions \cup {"none"} : RetryAttempt(e)
    \/ RetrySleep

\* the wrapped function answers every invocation and every sleep ends
SpecRetryAsync ==
    /\ InitStore /\ [][NextRetryAsync]_vars
    /\ WF_vars(\E e \in Exceptions \cup {"none"} : RetryAttempt(e))
    /\ WF_vars(RetrySleep)

\* ============================================== telegram: _retry_on_flood
\* the server's retry-after values
RetryAfters == {0, 1, 2}
\* what a send raises, by the except clause of _retry_on_flood that takes it:
\* RetryAfter; NetworkError or TimedOut; another exception whose text holds
\* "Flood control exceeded" with or without "Retry in <n>"; one whose text
\* names a network error; any other exception
SendErrors ==
    {[kind |-> k, retry_after |-> n] : k \in {"RetryAfter", "flood_text"}, n \in RetryAfters}
        \cup {[kind |-> k, retry_after |-> 0] :
                 k \in {"NetworkError", "flood_text_plain", "network_text", "other"}}
SendOk == [kind |-> "none", retry_after |-> 0]

\* a wait of one second whatever the server said
wait_time_short(e, attempt) == 1

\* telegram.py _retry_on_flood lines 41-65: the sleep after a retryable error
wait_time(e, attempt) ==
    IF e.kind \in {"RetryAfter", "flood_text"} THEN e.retry_after + 1
    ELSE IF e.kind = "flood_text_plain" THEN 10
    ELSE 3 * (attempt + 1)

\* telegram.py _retry_on_flood line 26: the call
FloodCall(max_retries) ==
    /\ run.flood.pc \in {"idle", "returned", "raised"}
    /\ run' = [run EXCEPT !.flood =
                 [FloodIdle EXCEPT !.pc = "calling", !.max_retries = max_retries]]
    /\ RunFrame

\* telegram.py _retry_on_flood lines 38-69: one invocation of the send, in
\* the loop (attempt < max_retries: retryable errors are slept on, another
\* one is raised again) or after it (nothing is caught)
FloodAttempt(e) ==
    LET f == run.flood
        g == [f EXCEPT !.calls = @ + 1,
                       !.early = @ \/ f.now < f.not_before]
    IN
    /\ f.pc = "calling"
    /\ run' = [run EXCEPT !.flood =
                 IF e.kind = "none" THEN [g EXCEPT !.pc = "returned"]
                 ELSE IF f.attempt < f.max_retries /\ e.kind # "other"
                 THEN [g EXCEPT !.pc = "sleeping",
                                !.wait = wait_time(e, f.attempt),
                                !.retried_after = @ \cup {e.kind},
                                !.not_before =
                                    IF e.kind \in {"RetryAfter", "flood_text"}
                                    THEN f.now + e.retry_after ELSE f.now]
                 ELSE [g EXCEPT !.pc = "raised", !.raised = e.kind]]
    /\ RunFrame

\* telegram.py _retry_on_flood lines 44, 49, 58 and 63: asyncio.sleep, then
\* the next round
FloodSleep ==
    LET f == run.flood IN
    /\ f.pc = "sleeping"
    /\ run' = [run EXCEPT !.flood =
                 [f EXCEPT !.pc = "calling", !.attempt = @ + 1,
                           !.now = @ + f.wait]]
    /\ RunFrame

NextFlood ==
    \/ \E m \in 0..MaxRetries : FloodCall(m)
    \/ \E e \in SendErrors \cup {SendOk} : FloodAttempt(e)
    \/ FloodSleep

SpecFlood == InitStore /\ [][NextFlood]_vars

\* ======================================================= notifiers: send
Outcomes == [Recipients -> BOOLEAN]
Kinds == [Works -> {"illust", "ugoira"}]

\* telegram.py _send_photo lines 2415-2469: the photo goes to every chat, a
\* failure is logged, the result is whether any chat took it
send_photo(chats, photo) ==
    [delivered |-> [r \in Recipients |-> IF r \in chats /\ photo[r] THEN 1 ELSE 0],
     any_success |-> \E r \in chats : photo[r]]

RECURSIVE video_loop(_, _, _, _, _, _, _)
\* telegram.py _send_video lines 2479-2570, the loop over the chats: the
\* converted file if there is one, else the proxy link, else the conversion
\* and the file; when that raises, _send_photo sends the cover to every chat
\* and any_success is set whatever it returned
video_loop(todo, st, chats, url, transcode, local, photo) ==
    IF todo = <<>> THEN st
    ELSE LET c == Head(todo)
             deliver(s) == [s EXCEPT !.delivered[c] = @ + 1, !.any_success = TRUE]
             fallback(s) ==
                 [s EXCEPT !.delivered = [r \in Recipients |->
                                 s.delivered[r] + send_photo(chats, photo).delivered[r]],
                           !.any_success = TRUE]
             converted == [st EXCEPT !.local_mp4 = transcode]
             next == IF st.local_mp4
                     THEN IF local[c] THEN deliver(st) ELSE fallback(st)
                     ELSE IF url[c] THEN deliver(st)
                     ELSE IF converted.local_mp4 /\ local[c] THEN deliver(converted)
                     ELSE fallback(converted)
         IN video_loop(Tail(todo), next, chats, url, transcode, local, photo)

\* the chats in the order of chat_ids
InOrder(S) ==
    IF S = {} THEN <<>>
    ELSE IF S = {1} THEN <<1>> ELSE IF S = {2} THEN <<2>> ELSE <<1, 2>>

\* telegram.py _send_video lines 2471-2570
send_video(chats, url, transcode, local, photo) ==
    video_loop(InOrder(chats),
               [local_mp4 |-> FALSE, delivered |-> [r \in Recipients |-> 0],
                any_success |-> FALSE],
               chats, url, transcode, local, photo)

\* telegram.py _send_single lines 2389-2413: an animation goes through
\* _send_video, a picture through _send_photo
send_single(kind, chats, url, transcode, local, photo) ==
    IF kind = "ugoira" THEN send_video(chats, url, transcode, local, photo)
    ELSE send_photo(chats, photo)

\* telegram.py send lines 2019-2040 in the single mode (and
\* _send_batch_fallback lines 2247-2257): every work through _send_single,
\* the ids of the works it reported sent are returned
TgSend(illusts, chats, kind, url, transcode, local, photo) ==
    /\ run' = [run EXCEPT !.send =
                 [notifier |-> "telegram", illusts |-> illusts, recipients |-> chats,
                  delivered |-> [w \in Works |->
                      IF w \in illusts
                      THEN send_single(kind[w], chats, url, transcode, local, photo).delivered
                      ELSE [r \in Recipients |-> 0]],
                  success_ids |-> {w \in illusts :
                      send_single(kind[w], chats, url, transcode, local, photo).any_success}]]
    /\ RunFrame

\* telegram.py send lines 2024-2026 and _send_batch_telegraph lines
\* 2054-2127, for more than one work with Telegraph at hand: the page with
\* the works is created (a failure leaves the message without a link), the
\* message goes to every chat, and one message sent reports every work
TgSendBatchTelegraph(illusts, chats, page_ok, msg) ==
    /\ Cardinality(illusts) > 1
    /\ run' = [run EXCEPT !.send =
                 [notifier |-> "telegram", illusts |-> illusts, recipients |-> chats,
                  delivered |-> [w \in Works |-> [r \in Recipients |->
                      IF w \in illusts /\ r \in chats /\ page_ok /\ msg[r]
                      THEN 1 ELSE 0]],
                  success_ids |-> IF \E r \in chats : msg[r] THEN illusts ELSE {}]]
    /\ RunFrame

\* onebot.py send lines 72-110 with _send_forward lines 226-245 and
\* _send_message lines 200-224: the forward goes to the targets in order and
\* stops at the first failure; after a failure every work is sent on its own
\* to the targets in order, and counts when no target failed
ObSend(illusts, targets, fwd, msg) ==
    LET fwd_reached(t) == t \in targets /\ \A u \in targets : u <= t => fwd[u]
        fwd_ok == \A t \in targets : fwd[t]
        msg_reached(w, t) == t \in targets /\ \A u \in targets : u <= t => msg[w][u]
        msg_ok(w) == \A t \in targets : msg[w][t]
    IN
    /\ run' = [run EXCEPT !.send =
                 [notifier |-> "onebot", illusts |-> illusts, recipients |-> targets,
                  delivered |-> [w \in Works |-> [r \in Recipients |->
                      IF w \notin illusts THEN 0
                      ELSE (IF fwd_reached(r) THEN 1 ELSE 0)
                           + (IF ~fwd_ok /\ msg_reached(w, r) THEN 1 ELSE 0)]],
                  success_ids |-> IF fwd_ok THEN illusts
                                  ELSE {w \in illusts : msg_ok(w)}]]
    /\ RunFrame

NextSend ==
    \/ \E illusts \in SUBSET Works, chats \in SUBSET Recipients, kind \in Kinds,
          url \in Outcomes, transcode \in BOOLEAN, local \in Outcomes, photo \in Outcomes :
          TgSend(illusts, chats, kind, url, transcode, local, photo)
    \/ \E illusts \in SUBSET Works, chats \in SUBSET Recipients, page_ok \in BOOLEAN,
          msg \in Outcomes :
          TgSendBatchTelegraph(illusts, chats, page_ok, msg)
    \/ \E illusts \in SUBSET Works, targets \in SUBSET Recipients, fwd \in Outcomes,
          msg \in [Works -> Outcomes] :
          ObSend(illusts, targets, fwd, msg)

SpecSend == InitStore /\ [][NextSend]_vars

\* ====================================================== the fetch phase
\* what a platform query raises when it fails (the error kinds of the
\* platform client)
QueryErrors == {"auth", "network"}

FetchFrame == UNCHANGED <<auxVars, storeVars, store_ops, histVars, tick, overlapped, tick_sent,
                          cmd_log, recorded_origin, reactVars, outsider_log>>

Extend(f, st, works) ==
    [f EXCEPT !.results[st] = @ \cup works, !.got[st] = @ \cup works]

\* main_task lines 208-240: the fetcher is built and discover is entered
FetchBegin ==
    /\ tick[1].pc = "fetch"
    /\ fetch.pc \in {"idle", "fetched", "aborted"}
    /\ fetch' = [FetchIdle EXCEPT !.pc = "discover"]
    /\ UNCHANGED admin_texts
    /\ FetchFrame

\* fetcher.py discover lines 92-145 and 150-175: one search query (a pair
\* query or a single-tag query); nothing catches what search_illusts raises,
\* so a failure leaves discover and main_task's try block (main.py line 320)
DiscoverQuery(out) ==
    /\ fetch.pc = "discover"
    /\ fetch.queries < MaxQueries
    /\ fetch' = IF out.err # "none"
                THEN [fetch EXCEPT !.pc = "aborted", !.error = out.err,
                                   !.failed = @ \cup {"search"}]
                ELSE [Extend(fetch, "search", out.works) EXCEPT !.queries = @ + 1]
    /\ UNCHANGED admin_texts
    /\ FetchFrame

\* fetcher.py discover lines 182-183: the works of the queries are returned
DiscoverReturn ==
    /\ fetch.pc = "discover"
    /\ fetch' = [fetch EXCEPT !.pc = "feed"]
    /\ UNCHANGED admin_texts
    /\ FetchFrame

\* fetcher.py check_subscriptions lines 192-200: the follow feed; a failure
\* is logged
SubscriptionFeed(out) ==
    /\ fetch.pc = "feed"
    /\ fetch' = IF out.err # "none"
                THEN [fetch EXCEPT !.pc = "artists", !.failed = @ \cup {"subscription"}]
                ELSE [Extend(fetch, "subscription", out.works) EXCEPT !.pc = "artists"]
    /\ UNCHANGED admin_texts
    /\ FetchFrame

\* fetcher.py check_subscriptions lines 204-223: the works of the configured
\* artist (one artist is configured); a failure is logged
SubscriptionArtist(out) ==
    /\ fetch.pc = "artists"
    /\ out.err # "none" \/ \A w \in out.works : IllustUser(w) \in manual_subs
    /\ fetch' = IF out.err # "none"
                THEN [fetch EXCEPT !.pc = "ranking", !.failed = @ \cup {"subscription"}]
                ELSE [Extend(fetch, "subscription", out.works) EXCEPT !.pc = "ranking"]
    /\ UNCHANGED admin_texts
    /\ FetchFrame

\* fetcher.py fetch_ranking lines 225-250, with one ranking mode: nothing is
\* asked when the ranking is not enabled; a failure is logged
FetchRanking(ranking_enabled, out) ==
    /\ fetch.pc = "ranking"
    /\ fetch' = IF ~ranking_enabled THEN [fetch EXCEPT !.pc = "fetched"]
                ELSE IF out.err # "none"
                THEN [fetch EXCEPT !.pc = "fetched", !.failed = @ \cup {"ranking"}]
                ELSE [Extend(fetch, "ranking", out.works) EXCEPT !.pc = "fetched"]
    /\ UNCHANGED admin_texts
    /\ FetchFrame

\* main_task line 248: the three lists are concatenated
FetchedOrigin ==
    [w \in Works |-> {st \in Strategies : w \in fetch.results[st]}]

\* main_task lines 248-271 after the three strategies returned
FetchFiltered ==
    /\ fetch.pc = "fetched"
    /\ TickFilter(1, FetchedOrigin)

\* main_task lines 320-321: the exception that left discover is logged
FetchAborted ==
    /\ fetch.pc = "aborted"
    /\ TickFail(1)

\* main_task lines 298-312: the warning text about failed AI tag batches, the
\* last step of the push block
TickAiAlert ==
    /\ tick[1].pc = "done"
    /\ tick[1].filtered # {}
    /\ admin_texts' = admin_texts \cup {"ai_warning"}
    /\ UNCHANGED fetch
    /\ FetchFrame

\* ------------------------------------------------------------ SpecFetch
\* a query raises, or returns works (none or one work per query)
QueryOutcomes ==
    {[err |-> e, works |-> {}] : e \in QueryErrors}
        \cup {[err |-> "none", works |-> S] : S \in {{}} \cup {{w} : w \in Works}}

NextFetch ==
    \/ TickStart(1)
    \/ FetchBegin
    \/ \E out \in QueryOutcomes : DiscoverQuery(out)
    \/ DiscoverReturn
    \/ \E out \in QueryOutcomes : SubscriptionFeed(out)
    \/ \E out \in QueryOutcomes : SubscriptionArtist(out)
    \/ \E en \in BOOLEAN, out \in QueryOutcomes : FetchRanking(en, out)
    \/ FetchFiltered
    \/ FetchAborted
    \/ TickCache(1)
    \/ \E S \in SUBSET Works, r \in BOOLEAN : TickSend(1, S, r)
    \/ \E pid \in Works : TickMark(1, pid)
    \/ TickAiAlert

SpecFetch == InitTick /\ [][NextFetch]_vars

\* ================================================ the cleaner-error summary
\* the notifiers with a send_text method (telegram.py line 2281; the OneBot
\* notifier has none)
TextNotifiers == {"telegram"}

AlertFrame == UNCHANGED <<run, limiter, map_order, side_tables, search_calls, daemon,
                          store_ops, histVars, reactVars, outsider_log, fetchVars>>

\* main_task lines 188-196 (one tick): the profile rebuild opens the tick
AlertTickStart ==
    /\ tick[1].pc = "idle"
    /\ TickStart(1)

\* the cleaner (TagNormalizer) fails on a batch during the rebuild: the batch
\* is logged (add_ai_error) and kept in occurred_errors
CleanerFailed ==
    /\ tick[1].pc = "fetch"
    /\ ~cleaner.occurred
    /\ cleaner' = [cleaner EXCEPT !.occurred = TRUE]
    /\ ai_error_logs' = Append(ai_error_logs, [tags |-> <<"t1">>, status |-> "pending"])
    /\ UNCHANGED <<push_history, xp_profile, xp_tag_pairs, tag_mapping_stats,
                   feedback, tag_blacklist, illust_cache>>
    /\ UNCHANGED <<tick, overlapped, tick_sent, cmd_log, recorded_origin>>
    /\ AlertFrame

\* main_task lines 271 and 298-323: the summary with the retry_ai button is
\* sent inside the push block, which is entered when the filter left works;
\* then main_task returns
PushBlockEnd ==
    /\ tick[1].pc = "done"
    /\ ~cleaner.closed
    /\ cleaner' = [cleaner EXCEPT
                      !.closed = TRUE,
                      !.alerted = IF tick[1].filtered # {} /\ cleaner.occurred
                                  THEN TextNotifiers ELSE {}]
    /\ UNCHANGED <<storeVars, tick, overlapped, tick_sent, cmd_log, recorded_origin>>
    /\ AlertFrame

NextAlert ==
    \/ AlertTickStart
    \/ CleanerFailed
    \/ TickFail(1)
    \/ \E o \in OriginsAll : TickFilter(1, o)
    \/ TickCache(1)
    \/ \E S \in SUBSET Works, r \in BOOLEAN : TickSend(1, S, r)
    \/ \E pid \in Works : TickMark(1, pid)
    \/ PushBlockEnd

SpecAlert == InitTick /\ [][NextAlert]_vars

\* ==================================================== the retry_ai action
\* TagNormalizer's outcomes on a batch: cleaned; the remote service failed and
\* the batch fell back to the identity mapping (the failure is logged, nothing
\* is raised); or the call raised
ReplayOutcomes == {"cleaned", "fallback", "raised"}

\* database.py update_ai_error_status: UPDATE ... SET status = ? WHERE id = ?
update_ai_error_status(logs, error_id, status) ==
    [logs EXCEPT ![error_id].status = status]

\* telegram.py callback_handler lines 696-729 (data "retry_ai:<id>") and
\* main.py on_action lines 74-110: the record is loaded, a missing or resolved
\* one ends the action, the batch is replayed through process_tags, and
\* unless that raised the status is set to resolved
RetryAi(user, error_id, outcome) ==
    /\ Authorized(user)
    /\ LET known == error_id \in 1..Len(ai_error_logs)
           replayed == known /\ ai_error_logs[error_id].status # "resolved"
       IN /\ ai_error_logs' =
                 IF replayed /\ outcome # "raised"
                 THEN update_ai_error_status(ai_error_logs, error_id, "resolved")
                 ELSE ai_error_logs
          /\ cleaner' = IF replayed
                        THEN [cleaner EXCEPT !.replays = @ \cup {<<error_id, outcome>>}]
                        ELSE cleaner
    /\ UNCHANGED <<push_history, xp_profile, xp_tag_pairs, tag_mapping_stats,
                   feedback, tag_blacklist, illust_cache>>
    /\ UNCHANGED <<run, limiter, map_order, side_tables, search_calls, daemon,
                   store_ops, histVars, tickVars, reactVars, outsider_log>>

NextRetry ==
    \/ AddAiError(<<"t1">>)
    \/ \E user \in Users, error_id \in 1..(MaxStoreOps + 1), outcome \in ReplayOutcomes :
          RetryAi(user, error_id, outcome)

SpecRetry == InitStore /\ [][NextRetry]_vars

\* ============================================ commands for the orchestrator
\* main.py on_action lines 74-110: `if action == "retry_ai":` is its only
\* branch; for every other action nothing is done.  The main_task tasks it
\* creates, and the scheduler trigger it leaves.
on_action_tasks(action, data) == 0
on_action_trigger(action, data, trigger) == trigger

\* telegram.py cmd_schedule lines 1335-1358: "h:mm" becomes "mm h * * *", a
\* text CronTrigger.from_crontab accepts is kept, anything else is refused
ScheduleInputs == {"9:30", "0 22 * * *", "soon"}
schedule_data(input) ==
    IF input = "9:30" THEN "30 9 * * *"
    ELSE IF input = "0 22 * * *" THEN input
    ELSE "invalid"

ActionFrame == UNCHANGED <<run, limiter, map_order, side_tables, search_calls, cleaner,
                           storeVars, store_ops, histVars, tickVars, reactVars>>

Acked(user, kind, ack, tasks, trigger) ==
    /\ IF ~Authorized(user)
       THEN /\ RespondTo(user, kind, "no_permission")
            /\ UNCHANGED daemon
       ELSE /\ RespondTo(user, kind, "reply")
            /\ daemon' = [daemon EXCEPT !.acks = @ \cup {ack},
                                        !.spawned = @ + tasks,
                                        !.trigger = trigger]
    /\ ActionFrame

\* telegram.py cmd_push lines 1019-1026 and 1089-1095, /push without arguments
CmdPushAll(user) ==
    Acked(user, "command", <<"push", "started">>,
          on_action_tasks("run_task", "none"),
          on_action_trigger("run_task", "none", daemon.trigger))

\* telegram.py _handle_menu_callback lines 316-322, the menu's push button
TgMenuPush(user) ==
    Acked(user, "callback", <<"menu_push", "started">>,
          on_action_tasks("push", "none"),
          on_action_trigger("push", "none", daemon.trigger))

\* telegram.py cmd_schedule lines 1316-1368, /schedule <time or cron>
CmdSchedule(user, input) ==
    IF schedule_data(input) = "invalid"
    THEN /\ RespondTo(user, "command", IF Authorized(user) THEN "reply" ELSE "no_permission")
         /\ UNCHANGED daemon
         /\ ActionFrame
    ELSE Acked(user, "command", <<"schedule", schedule_data(input)>>,
               on_action_tasks("update_schedule", schedule_data(input)),
               on_action_trigger("update_schedule", schedule_data(input), daemon.trigger))

\* main.py run_scheduler lines 386-391: the scheduler's job fires and creates
\* a main_task task
CronFire ==
    /\ daemon.spawned < MaxEvents
    /\ daemon' = [daemon EXCEPT !.spawned = @ + 1]
    /\ UNCHANGED outsider_log
    /\ ActionFrame

NextAction ==
    \/ \E user \in Users : CmdPushAll(user)
    \/ \E user \in Users : TgMenuPush(user)
    \/ \E user \in Users, input \in ScheduleInputs : CmdSchedule(user, input)
    \/ CronFire

\* ==================================================== the reaction path
\* onebot.py _process_message line 301: the master test
\* (self.master_id and sender_id != self.master_id is the refusal)
ObAuthorized(sender) == master_id = 0 \/ sender = master_id
ObRespondTo(sender, response) ==
    outsider_log' = IF ~ObAuthorized(sender)
                    THEN outsider_log \cup {<<"onebot", response>>}
                    ELSE outsider_log

\* profiler.apply_feedback, the weight change of every tag of the work
RECURSIVE adjust_tags(_, _, _)
adjust_tags(profile, tags, delta) ==
    IF tags = <<>> THEN profile
    ELSE adjust_tags(adjust_tag_weight(profile, Head(tags), delta), Tail(tags), delta)

\* profiler.apply_feedback: like boosts every tag by delta+, dislike lowers
\* every tag by delta- and increments the dislike count of the most
\* distinctive tag; any other action is recorded without weight change
\* (weights in units of delta)
apply_feedback(id, tags, action, distinctive) ==
    /\ xp_profile' = IF action = "like" THEN adjust_tags(xp_profile, tags, 1)
                     ELSE IF action = "dislike" THEN adjust_tags(xp_profile, tags, -1)
                     ELSE xp_profile
    /\ tag_blacklist' = IF action = "dislike"
                        THEN increment_tag_dislike(tag_blacklist, distinctive)
                        ELSE tag_blacklist
    /\ feedback' = record_feedback(feedback, id, action)

ReactFrame == UNCHANGED <<auxVars, store_ops, histVars, tickVars, allowed_users, master_id,
                          message_illust_map>>
HandleFrame == ReactFrame /\ UNCHANGED notifierVars

\* an update is taken from the listener when no reaction is being handled
TakeUpdate ==
    /\ task.pc = "idle"
    /\ events < MaxEvents
    /\ events' = events + 1
    /\ UNCHANGED <<storeVars, apply_count, bookmark_calls, last_done>>
    /\ ReactFrame

StartTask(via, user, id, action) ==
    task' = [NoTask EXCEPT !.pc = "on_feedback", !.via = via, !.user = user,
                           !.id = id, !.action = action]

\* telegram.py callback_handler lines 697-710 and 824-881: the buttons
\* like:<id>, dislike:<id> and follow:<authorId>; the reaction is handled by
\* the background task
TgCallback(user, action, id) ==
    /\ TakeUpdate
    /\ IF ~Authorized(user)
       THEN /\ RespondTo(user, "callback", "no_permission_alert")
            /\ UNCHANGED task
       ELSE /\ RespondTo(user, "callback", "answer")
            /\ StartTask("callback", user, id, action)
    /\ UNCHANGED notifierVars

\* telegram.py reply_handler lines 887-1016: a reply to a message.  A search
\* wizard at its first step does not take the reply (lines 902-959); a pending
\* input takes it (lines 962-999: the daily limit asked by the settings menu,
\* or the tag asked by the block menu, whose table is not among the modelled
\* ones); otherwise "1" / "2" is the reaction to the pushed work replied to.
TgReply(user, msg, text) ==
    /\ TakeUpdate
    /\ UNCHANGED <<batch_mode, search_sessions>>
    /\ IF ~Authorized(user)
       THEN /\ RespondTo(user, "reply", "nothing")
            /\ UNCHANGED <<task, pending_input, daily_limit>>
       ELSE /\ UNCHANGED outsider_log
            /\ IF pending_input # "none"
               THEN /\ pending_input' = "none"
                    /\ daily_limit' = IF pending_input # "set_limit" THEN daily_limit
                                      ELSE IF text = "1" THEN 1
                                      ELSE IF text = "2" THEN 2 ELSE daily_limit
                    /\ UNCHANGED task
               ELSE /\ UNCHANGED <<pending_input, daily_limit>>
                    /\ IF msg \in DOMAIN message_illust_map /\ text \in {"1", "2"}
                       THEN StartTask("reply", user, message_illust_map[msg],
                                      IF text = "1" THEN "like" ELSE "dislike")
                       ELSE UNCHANGED task

\* onebot.py _process_message lines 291-324: a message "<id> 1" / "<id> 2"
ObMessage(sender, id, code) ==
    /\ TakeUpdate
    /\ IF ~ObAuthorized(sender)
       THEN /\ ObRespondTo(sender, "nothing")
            /\ UNCHANGED task
       ELSE /\ UNCHANGED outsider_log
            /\ IF code \in {"1", "2"}
               THEN StartTask("onebot", sender, id,
                              IF code = "1" THEN "like" ELSE "dislike")
               ELSE UNCHANGED task
    /\ UNCHANGED notifierVars

\* telegram.py cmd_help lines 1741-1765: the help text, for every sender
CmdHelp(user) ==
    /\ RespondTo(user, "help", "help_text")
    /\ UNCHANGED <<auxVars, storeVars, store_ops, histVars, tickVars, reactVars>>

NotifierFrame == UNCHANGED <<auxVars, storeVars, store_ops, histVars, tickVars,
                            allowed_users, master_id, message_illust_map, task,
                            events, apply_count, bookmark_calls, last_done>>

\* telegram.py cmd_batch lines 1778-1811: /batch on | off
CmdBatch(user, arg) ==
    /\ IF ~Authorized(user)
       THEN /\ RespondTo(user, "command", "no_permission")
            /\ UNCHANGED batch_mode
       ELSE /\ RespondTo(user, "command", "reply")
            /\ batch_mode' = IF arg = "on" THEN "telegraph"
                             ELSE IF arg = "off" THEN "single" ELSE batch_mode
    /\ UNCHANGED <<pending_input, search_sessions, daily_limit>>
    /\ NotifierFrame

\* telegram.py cmd_search lines 1103-1138, /search without keywords: the
\* wizard is opened for the sender
CmdSearchWizard(user) ==
    /\ IF ~Authorized(user)
       THEN /\ RespondTo(user, "command", "no_permission")
            /\ UNCHANGED search_sessions
       ELSE /\ RespondTo(user, "command", "reply")
            /\ search_sessions' = search_sessions \cup {user}
    /\ UNCHANGED <<batch_mode, pending_input, daily_limit>>
    /\ NotifierFrame

\* telegram.py callback_handler lines 697-710 and 737-739 with
\* _handle_search_callback lines 1261-1271: the button search_cancel
TgSearchCancel(user) ==
    /\ IF ~Authorized(user)
       THEN /\ RespondTo(user, "callback", "no_permission_alert")
            /\ UNCHANGED search_sessions
       ELSE /\ RespondTo(user, "callback", "answer")
            /\ search_sessions' = search_sessions \ {user}
    /\ UNCHANGED <<batch_mode, pending_input, daily_limit>>
    /\ NotifierFrame

\* telegram.py callback_handler lines 697-710 and 732-734 with
\* _handle_menu_callback lines 549-557: the button menu:settings:limit
TgMenuLimit(user) ==
    /\ IF ~Authorized(user)
       THEN /\ RespondTo(user, "callback", "no_permission_alert")
            /\ UNCHANGED pending_input
       ELSE /\ RespondTo(user, "callback", "answer")
            /\ pending_input' = "set_limit"
    /\ UNCHANGED <<batch_mode, search_sessions, daily_limit>>
    /\ NotifierFrame

\* telegram.py callback_handler lines 697-710 with _handle_block_callback
\* lines 1593-1605: the button block_add opens the prompt for a tag
TgBlockAdd(user) ==
    /\ IF ~Authorized(user)
       THEN /\ RespondTo(user, "callback", "no_permission_alert")
            /\ UNCHANGED pending_input
       ELSE /\ RespondTo(user, "callback", "answer")
            /\ pending_input' = "block_tag"
    /\ UNCHANGED <<batch_mode, search_sessions, daily_limit>>
    /\ NotifierFrame

\* telegram.py _handle_block_callback lines 1607-1609: the prompt's cancel
\* button shows the block menu again; _pending_input is not touched.
\* cancelled is history in the notifier state: the prompt was cancelled.
TgBlockCancel(user) ==
    /\ IF ~Authorized(user)
       THEN /\ RespondTo(user, "callback", "no_permission_alert")
            /\ UNCHANGED pending_input
       ELSE /\ RespondTo(user, "callback", "answer")
            /\ pending_input' = IF pending_input = "block_tag"
                                THEN "block_tag_cancelled" ELSE pending_input
    /\ UNCHANGED <<batch_mode, search_sessions, daily_limit>>
    /\ NotifierFrame

\* where handle_feedback goes after on_feedback returned: the OneBot notifier
\* only replies (onebot.py lines 267-271), the Telegram notifier mirrors like
\* and follow to the platform (telegram.py lines 2669-2674)
AfterOnFeedback ==
    IF task.via # "onebot" /\ task.action \in {"like", "follow"}
    THEN "mirror2" ELSE "reply"

Bump(count, id) ==
    [w \in Works |-> IF w = id /\ count[w] < 2 THEN count[w] + 1 ELSE count[w]]

\* main.py on_feedback lines 35-61 and 71-72: the cached tags are looked up
\* and, when found, the reaction is applied by the profiler
OnFeedback(distinctive) ==
    /\ task.pc = "on_feedback"
    /\ LET cached_tags == get_cached_illust_tags(task.id)
       IN IF cached_tags # <<>>
          THEN /\ distinctive \in Range(cached_tags)
               /\ apply_feedback(task.id, cached_tags, task.action, distinctive)
               /\ apply_count' = IF task.action \in Actions
                                 THEN Bump(apply_count, task.id) ELSE apply_count
               /\ task' = [task EXCEPT
                             !.applied = TRUE,
                             !.pc = IF task.action = "like" THEN "mirror1"
                                    ELSE AfterOnFeedback]
          ELSE /\ distinctive = "t1"
               /\ UNCHANGED <<xp_profile, tag_blacklist, feedback, apply_count>>
               /\ task' = [task EXCEPT !.pc = AfterOnFeedback]
    /\ UNCHANGED <<push_history, xp_tag_pairs, tag_mapping_stats, ai_error_logs,
                   illust_cache>>
    /\ UNCHANGED <<events, bookmark_calls, last_done, outsider_log>>
    /\ HandleFrame

\* on_feedback raises (the Store or the profiler failed): the background task
\* of the button sends the warning (telegram.py lines 868-878); the reply
\* handler and the OneBot listener (onebot.py lines 288-289) send nothing
OnFeedbackRaise ==
    /\ task.pc = "on_feedback"
    /\ last_done' = Done([task EXCEPT !.raised = TRUE,
                                      !.warned = (task.via = "callback")])
    /\ task' = NoTask
    /\ UNCHANGED <<storeVars, events, apply_count, bookmark_calls, outsider_log>>
    /\ HandleFrame

\* main.py on_feedback lines 63-68: add_bookmark for a like; a failure is
\* logged and nothing else
Mirror1(ok) ==
    /\ task.pc = "mirror1"
    /\ bookmark_calls' = Bump(bookmark_calls, task.id)
    /\ task' = [task EXCEPT !.attempted = TRUE,
                            !.mirror_failed = @ \/ ~ok,
                            !.pc = AfterOnFeedback]
    /\ UNCHANGED <<storeVars, events, apply_count, last_done, outsider_log>>
    /\ HandleFrame

\* telegram.py handle_feedback lines 2669-2696: add_bookmark for a like,
\* user_follow_add for a follow; a failure is logged and nothing else
Mirror2(ok) ==
    /\ task.pc = "mirror2"
    /\ bookmark_calls' = IF task.action = "like"
                         THEN Bump(bookmark_calls, task.id) ELSE bookmark_calls
    /\ task' = [task EXCEPT !.attempted = TRUE,
                            !.mirror_failed = @ \/ ~ok,
                            !.pc = "reply"]
    /\ UNCHANGED <<storeVars, events, apply_count, last_done, outsider_log>>
    /\ HandleFrame

\* handle_feedback returned: the reply handler confirms (telegram.py lines
\* 1011-1016), the OneBot listener confirms (onebot.py lines 315-322), the
\* background task of the button sends nothing (telegram.py lines 866-867)
Finish ==
    /\ task.pc = "reply"
    /\ last_done' = Done(task)
    /\ task' = NoTask
    /\ IF task.via = "onebot" THEN ObRespondTo(task.user, "reply")
       ELSE IF task.via = "reply" THEN RespondTo(task.user, "reply", "reply_text")
       ELSE UNCHANGED outsider_log
    /\ UNCHANGED <<storeVars, events, apply_count, bookmark_calls>>
    /\ HandleFrame

\* ------------------------------------------------------------ SpecReact
\* Works were pushed before: each has a message in the chat; those pushed by
\* a tick have a cache row, those delivered by /push <id> have none.
ReactInit(cache_choices, allow_choices, master_choices) ==
    /\ push_history = [id \in Works |-> <<>>]
    /\ xp_profile = RebuiltProfile
    /\ xp_tag_pairs = {}
    /\ tag_mapping_stats = EmptyMap
    /\ ai_error_logs = <<>>
    /\ feedback = EmptyMap
    /\ tag_blacklist = EmptyMap
    /\ \E cached \in cache_choices : illust_cache = [id \in cached |-> IllustTags(id)]
    /\ store_ops = 0
    /\ remarked = {}
    /\ reset_cleared = FALSE
    /\ TickInitIdle
    /\ allowed_users \in allow_choices
    /\ master_id \in master_choices
    /\ message_illust_map = [m \in Works |-> m]
    /\ task = NoTask
    /\ events = 0
    /\ apply_count = [w \in Works |-> 0]
    /\ bookmark_calls = [w \in Works |-> 0]
    /\ last_done = NoneDone
    /\ NotifierInit
    /\ outsider_log = {}
    /\ AuxInit

\* no allow-list and no master configured: every sender is served
InitReact == ReactInit(SUBSET Works, {{}}, {0})

HandleStep ==
    \/ \E d \in TagNames : OnFeedback(d)
    \/ OnFeedbackRaise
    \/ \E ok \in BOOLEAN : Mirror1(ok)
    \/ \E ok \in BOOLEAN : Mirror2(ok)
    \/ Finish

NextReact ==
    \/ \E a \in {"like", "dislike"}, id \in Works : TgCallback(1, a, id)
    \/ \E w \in Works : TgCallback(1, "follow", IllustUser(w))
    \/ \E m \in 0..NumWorks, x \in {"1", "2", "x"} : TgReply(1, m, x)
    \/ \E id \in Works, c \in {"1", "2", "x"} : ObMessage(1, id, c)
    \/ HandleStep

SpecReact == InitReact /\ [][NextReact]_vars

\* ------------------------------------------------------------- SpecAuth
\* An allow-list and a master may be configured; every work has a cache row.
\* The allow-list tests read the sender only, so the senders vary and the
\* reactions are those to work 1.
InitAuth == ReactInit({Works}, {{}, {1}}, {0, 1})

NextAuth ==
    \/ \E u \in Users, a \in {"like", "dislike"} : TgCallback(u, a, 1)
    \/ \E u \in Users, x \in {"1", "2"} : TgReply(u, 1, x)
    \/ \E u \in Users, c \in {"1", "2"} : ObMessage(u, 1, c)
    \/ \E u \in Users : CmdHelp(u)
    \/ \E u \in Users, ok \in BOOLEAN : CmdPushId(u, 1, ok)
    \/ HandleStep

SpecAuth == InitAuth /\ [][NextAuth]_vars

\* ------------------------------------------------------------- SpecGate
\* the updates of SpecAuth and those that change the notifier's own state,
\* with an allow-list and a master configured
InitGate == ReactInit({Works}, {{1}}, {1})

NextGate ==
    \/ \E u \in Users : TgCallback(u, "like", 1)
    \/ \E u \in Users, x \in {"2", "x"} : TgReply(u, 1, x)
    \/ \E u \in Users : ObMessage(u, 1, "2")
    \/ \E u \in Users : CmdHelp(u)
    \/ \E u \in Users, arg \in {"on", "off"} : CmdBatch(u, arg)
    \/ \E u \in Users : CmdSearchWizard(u)
    \/ \E u \in Users : TgSearchCancel(u)
    \/ \E u \in Users : TgMenuLimit(u)
    \/ HandleStep

SpecGate == InitGate /\ [][NextGate]_vars

SpecAction == InitGate /\ [][NextAction]_vars

\* ============================================================ the listeners
ListenFrame == UNCHANGED <<run, progVars, limiter, map_order, side_tables, search_calls,
                           cleaner>>

\* telegram.py start_polling lines 1941-1945: polling_error_callback counts a
\* network error of the updater, which retries by itself
TgPollingError ==
    /\ daemon.tg_polling
    /\ daemon.consecutive_errors < MaxEvents
    /\ daemon' = [daemon EXCEPT !.consecutive_errors = @ + 1]
    /\ ListenFrame

\* the updater of the long-poll listener stops unexpectedly
TgPollingStops ==
    /\ daemon.tg_polling
    /\ daemon.exits < MaxEvents
    /\ daemon' = [daemon EXCEPT !.tg_polling = FALSE, !.exits = @ + 1]
    /\ ListenFrame

\* telegram.py _polling_health_check lines 1959-1996, one round of its loop:
\* without an application the round is skipped, a stopped updater is started
\* again (restarted is whether start_polling succeeded), a running one has
\* its error count reset
TgHealthCheck(restarted) ==
    /\ daemon' = IF daemon.tg_app = "none"
                 THEN daemon
                 ELSE IF ~daemon.tg_polling
                 THEN IF restarted
                      THEN [daemon EXCEPT !.tg_polling = TRUE, !.consecutive_errors = 0]
                      ELSE daemon
                 ELSE [daemon EXCEPT !.consecutive_errors = 0]
    /\ ListenFrame

\* onebot.py start_listening lines 273-289: a CLOSED message of the websocket
\* leaves the loop and the coroutine returns; run_scheduler created its task
\* once (main.py line 362) and nothing awaits or recreates it
ObConnectionClosed ==
    /\ daemon.ob_listening
    /\ daemon.exits < MaxEvents
    /\ daemon' = [daemon EXCEPT !.ob_listening = FALSE, !.exits = @ + 1]
    /\ ListenFrame

NextListen ==
    \/ TgPollingError
    \/ TgPollingStops
    \/ \E restarted \in BOOLEAN : TgHealthCheck(restarted)
    \/ ObConnectionClosed
    \/ CronFire

\* the health check runs every minute, and a restart it keeps attempting
\* succeeds in the end
SpecListen ==
    /\ InitGate
    /\ [][NextListen]_vars
    /\ WF_vars(TgHealthCheck(TRUE))

\* ================================================== stopping the notifiers
MaxCloses == 2

\* what a stop operation looks at and leaves behind
NotifierState(d, n) ==
    IF n = "onebot"
    THEN <<d.ob.session, d.ob.ws, d.ob.running, d.ob_listening>>
    ELSE <<d.tg_app, d.tg_polling>>

\* the history of one call of n's stop operation that led from d to after
Called(d, after, n) ==
    [after EXCEPT !.closes[n] = @ + 1,
                  !.after_first[n] = IF d.closes[n] = 0
                                     THEN NotifierState(after, n) ELSE @]

\* an updater.stop() that runs whether or not the updater is running, on an
\* application that is kept
tg_stop_polling_unguarded(d) ==
    [d EXCEPT !.tg_polling = FALSE, !.close_error = @ \/ ~d.tg_polling]

\* telegram.py stop_polling lines 1998-2017: with an application, the updater
\* is stopped if it runs, the application is stopped and shut down and the
\* reference is dropped; without one nothing is done
tg_stop_polling(d) ==
    IF d.tg_app = "none" THEN d
    ELSE [d EXCEPT !.tg_polling = FALSE, !.tg_app = "none"]

\* onebot.py close lines 258-264 (the later of the two definitions of close
\* is the one the class keeps): a session and a websocket that exist are
\* closed, closing a closed one does nothing; the loop of start_listening is
\* told to stop and ends on the closed websocket
ob_close(d) ==
    [d EXCEPT !.ob.session = IF @ = "none" THEN @ ELSE "closed",
              !.ob.ws = IF @ = "none" THEN @ ELSE "closed",
              !.ob.running = FALSE,
              !.ob_listening = FALSE]

ObClose ==
    /\ daemon.closes["onebot"] < MaxCloses
    /\ daemon' = Called(daemon, ob_close(daemon), "onebot")
    /\ ListenFrame

TgStopPolling ==
    /\ daemon.closes["telegram"] < MaxCloses
    /\ daemon' = Called(daemon, tg_stop_polling(daemon), "telegram")
    /\ ListenFrame

NextClose ==
    \/ NextListen
    \/ ObClose
    \/ TgStopPolling

SpecClose == InitGate /\ [][NextClose]_vars

\* ================================================================= shutdown
\* what ends the sleep loop of run_scheduler: asyncio.run cancels the main
\* task on SIGINT (CancelledError), or the exception itself is raised in it
ShutdownSignals == {"KeyboardInterrupt", "SystemExit", "CancelledError"}

\* the notifiers with a close method (onebot.py line 258; telegram.py
\* defines none)
Closeable == {"onebot"}

\* main.py run_scheduler lines 395-400: `except (KeyboardInterrupt,
\* SystemExit): scheduler.shutdown()`; any other exception goes straight to
\* the finally block
ShutdownSignal(exc) ==
    /\ daemon.phase = "serving"
    /\ daemon' = [daemon EXCEPT
                     !.phase = "finally",
                     !.scheduler = IF exc \in {"KeyboardInterrupt", "SystemExit"}
                                   THEN "shutdown" ELSE @]
    /\ ListenFrame

\* main.py run_scheduler lines 401-402: finally: await client.close()
CloseClient ==
    /\ daemon.phase = "finally"
    /\ daemon' = [daemon EXCEPT !.phase = "notifiers", !.client_open = FALSE]
    /\ ListenFrame

\* main.py run_scheduler lines 403-408: every notifier with a close method is
\* closed, what close raises is swallowed; then run_scheduler is left
CloseNotifiers ==
    /\ daemon.phase = "notifiers"
    /\ daemon' = [ob_close(daemon) EXCEPT !.phase = "exited",
                                          !.open_notifiers = @ \ Closeable]
    /\ ListenFrame

NextShutdown ==
    \/ daemon.phase = "serving" /\ NextListen
    \/ \E exc \in ShutdownSignals : ShutdownSignal(exc)
    \/ CloseClient
    \/ CloseNotifiers

SpecShutdown == InitGate /\ [][NextShutdown]_vars

\* ===================================================== rebuild and feedback
\* main_task lines 188-196 awaits profiler.build_profile (the scan of the
\* bookmarks, then the write of the profile through update_xp_profile);
\* on_feedback lines 57-61 awaits profiler.apply_feedback (one awaited Store
\* call per tag).  Both are coroutines of one event loop, a tick's task and a
\* listener's handler, and main.py takes no lock around either.

\* main_task lines 188-192: the tick enters build_profile and scans
BuildProfileBegin(t) ==
    /\ tick[t].pc \in {"idle", "done"}
    /\ tick' = [tick EXCEPT ![t] = [TickIdle EXCEPT !.pc = "build"]]
    /\ UNCHANGED <<storeVars, overlapped, tick_sent, cmd_log, recorded_origin>>
    /\ TickFrame

\* main_task lines 192-196: build_profile replaces the profile and returns
BuildProfileEnd(t) ==
    /\ tick[t].pc = "build"
    /\ tick' = [tick EXCEPT ![t].pc = "fetch"]
    /\ xp_profile' = RebuiltProfile
    /\ UNCHANGED <<push_history, xp_tag_pairs, tag_mapping_stats, ai_error_logs,
                   feedback, tag_blacklist, illust_cache>>
    /\ UNCHANGED <<overlapped, tick_sent, cmd_log, recorded_origin>>
    /\ TickFrame

\* main.py on_feedback lines 35-57: the cached tags are found and
\* apply_feedback is entered
ApplyFeedbackBegin ==
    /\ task.pc = "on_feedback"
    /\ get_cached_illust_tags(task.id) # <<>>
    /\ task' = [task EXCEPT !.pc = "applying"]
    /\ UNCHANGED <<storeVars, events, apply_count, bookmark_calls, last_done,
                   outsider_log>>
    /\ HandleFrame

\* main.py on_feedback lines 57-61: apply_feedback adjusts the weights and
\* returns
ApplyFeedbackEnd(distinctive) ==
    /\ task.pc = "applying"
    /\ LET cached_tags == get_cached_illust_tags(task.id)
       IN /\ distinctive \in Range(cached_tags)
          /\ apply_feedback(task.id, cached_tags, task.action, distinctive)
    /\ apply_count' = IF task.action \in Actions
                      THEN Bump(apply_count, task.id) ELSE apply_count
    /\ task' = [task EXCEPT !.applied = TRUE,
                            !.pc = IF task.action = "like" THEN "mirror1"
                                   ELSE AfterOnFeedback]
    /\ UNCHANGED <<push_history, xp_tag_pairs, tag_mapping_stats, ai_error_logs,
                   illust_cache>>
    /\ UNCHANGED <<events, bookmark_calls, last_done, outsider_log>>
    /\ HandleFrame

NextRebuild ==
    \/ BuildProfileBegin(1)
    \/ BuildProfileEnd(1)
    \/ TickFail(1)
    \/ \E a \in {"like", "dislike"}, id \in Works : TgCallback(1, a, id)
    \/ ApplyFeedbackBegin
    \/ \E d \in TagNames : ApplyFeedbackEnd(d)
    \/ \E ok \in BOOLEAN : Mirror1(ok)
    \/ \E ok \in BOOLEAN : Mirror2(ok)
    \/ Finish

SpecRebuild == InitGate /\ [][NextRebuild]_vars

\* ============================================================ the cron line
\* expressions of four, five and six fields
CronFields == {"0", "*"}
CronExprs == UNION {[1..n -> CronFields] : n \in 4..6}

\* main.py run_scheduler lines 349-393, started again with scheduler.cron =
\* cron_expr: the listeners are started, then parts[0..4] are read with no
\* check of the number of fields.  A missing field raises IndexError before
\* the try block: the exception leaves asyncio.run and the interpreter ends
\* with status 1, nothing is closed.  Fields after the fifth are not read.
RunScheduler(cron_expr) ==
    /\ daemon.phase \in {"exited", "crashed"}
    /\ daemon' = [daemon EXCEPT
                     !.cron_expr = cron_expr,
                     !.tg_polling = TRUE, !.ob_listening = TRUE,
                     !.consecutive_errors = 0,
                     !.client_open = TRUE,
                     !.open_notifiers = Range(notifiers),
                     !.jobs = IF Len(cron_expr) < 5 THEN {}
                              ELSE {CronTrigger(cron_expr)},
                     !.scheduler = IF Len(cron_expr) < 5 THEN "created"
                                   ELSE "running",
                     !.phase = IF Len(cron_expr) < 5 THEN "crashed"
                               ELSE "serving",
                     !.exit_code = IF Len(cron_expr) < 5 THEN 1 ELSE 0]
    /\ ListenFrame

NextCron ==
    \/ \E cron_expr \in CronExprs : RunScheduler(cron_expr)
    \/ daemon.phase = "serving" /\ daemon.jobs # {} /\ CronFire
    \/ \E exc \in ShutdownSignals : ShutdownSignal(exc)
    \/ CloseClient
    \/ CloseNotifiers

SpecCron == InitGate /\ [][NextCron]_vars

NextReply ==
    \/ \E u \in Users, m \in 0..1, x \in {"1", "2"} : TgReply(u, m, x)
    \/ \E u \in Users : TgBlockAdd(u)
    \/ \E u \in Users : TgBlockCancel(u)
    \/ \E u \in Users : TgMenuLimit(u)
    \/ \E u \in Users : CmdSearchWizard(u)
    \/ \E u \in Users : TgSearchCancel(u)
    \/ HandleStep

SpecReply == InitGate /\ [][NextReply]_vars

\* ================================================ the search wizard, /push a
\* the admin of the allow-list
Admin == 1

SearchFrame == UNCHANGED <<limiter, map_order, side_tables, search_calls, cleaner,
                           daemon, storeVars, store_ops, histVars, tickVars,
                           allowed_users, master_id, message_illust_map, task,
                           events, apply_count, bookmark_calls, last_done,
                           pending_input, daily_limit, outsider_log>>

\* how a search run ends before or instead of the send
SearchOutcomes == {"results", "too_few", "all_pushed", "error"}

\* telegram.py cmd_search lines 1103-1137 without arguments: a session is
\* opened at the first step
CmdSearchStart ==
    /\ run.search.pc = "idle"
    /\ search_sessions' = search_sessions \cup {Admin}
    /\ run' = [run EXCEPT !.search.step = "select_time", !.search.outcome = "none"]
    /\ UNCHANGED batch_mode
    /\ SearchFrame

\* telegram.py _handle_search_callback lines 1272-1281: a time range is
\* chosen, the session waits for the batch number
SearchTime ==
    /\ run.search.pc = "idle"
    /\ Admin \in search_sessions
    /\ run' = [run EXCEPT !.search.step = "input_batch"]
    /\ UNCHANGED <<search_sessions, batch_mode>>
    /\ SearchFrame

\* telegram.py reply_handler lines 901-941: a reply while the session waits
\* for the batch number; a number from 1 to 10 moves the session on
SearchBatchReply(valid) ==
    /\ run.search.pc = "idle"
    /\ Admin \in search_sessions
    /\ run.search.step = "input_batch"
    /\ run' = [run EXCEPT !.search.step = IF valid THEN "input_keywords" ELSE @,
                          !.search.late_input = @ \/ run.search.outcome # "none"]
    /\ UNCHANGED <<search_sessions, batch_mode>>
    /\ SearchFrame

\* telegram.py _do_search lines 1140-1208, up to the send: too few works and
\* a batch already pushed return from inside the try block, so the removal
\* of the session after it (lines 1236-1238) is not reached; an exception is
\* caught and the session removed; with works left the batch mode is saved
\* and forced, and send is awaited
do_search(outcome, late) ==
    /\ run.search.commands < MaxEvents
    /\ IF outcome = "results"
       THEN /\ run' = [run EXCEPT
                         !.search.pc = "sending", !.search.cmd = "search",
                         !.search.original_mode = batch_mode,
                         !.search.mode_before = IF @ = "unset" THEN batch_mode ELSE @,
                         !.search.late_input = @ \/ late]
            /\ batch_mode' = "telegraph"
            /\ UNCHANGED search_sessions
       ELSE /\ run' = [run EXCEPT
                         !.search.outcome = outcome,
                         !.search.commands = @ + 1,
                         !.search.step = IF outcome = "error" THEN "none" ELSE @,
                         !.search.late_input = @ \/ late]
            /\ search_sessions' = IF outcome = "error"
                                  THEN search_sessions \ {Admin} ELSE search_sessions
            /\ UNCHANGED batch_mode
    /\ SearchFrame

\* telegram.py reply_handler lines 943-959: a reply with keywords while the
\* session waits for them runs the search
SearchKeywordsReply(outcome) ==
    /\ run.search.pc = "idle"
    /\ Admin \in search_sessions
    /\ run.search.step = "input_keywords"
    /\ do_search(outcome, run.search.outcome # "none")

\* telegram.py cmd_search lines 1110-1117: /search with keywords runs the
\* search at once
CmdSearchArgs(outcome) ==
    /\ run.search.pc = "idle"
    /\ do_search(outcome, FALSE)

\* telegram.py _do_search lines 1207-1238: send returned and the mode is put
\* back, or send raised and the except branch is taken; the session is
\* removed
DoSearchSent(raised) ==
    /\ run.search.pc = "sending"
    /\ run.search.cmd = "search"
    /\ batch_mode' = IF raised THEN batch_mode ELSE run.search.original_mode
    /\ search_sessions' = search_sessions \ {Admin}
    /\ run' = [run EXCEPT !.search.pc = "idle", !.search.cmd = "none",
                          !.search.step = "none",
                          !.search.outcome = IF raised THEN "error" ELSE "results",
                          !.search.commands = @ + 1]
    /\ SearchFrame

\* telegram.py cmd_push lines 1052-1074, /push a <artist> with works found:
\* the batch mode is saved and forced, and send is awaited
CmdPushArtistBegin ==
    /\ run.search.pc = "idle"
    /\ run.search.commands < MaxEvents
    /\ run' = [run EXCEPT
                 !.search.pc = "sending", !.search.cmd = "push_artist",
                 !.search.original_mode = batch_mode,
                 !.search.mode_before = IF @ = "unset" THEN batch_mode ELSE @]
    /\ batch_mode' = "telegraph"
    /\ UNCHANGED search_sessions
    /\ SearchFrame

\* telegram.py cmd_push lines 1075-1087: send returned and the mode is put
\* back, or send raised and the except branch is taken
CmdPushArtistSent(raised) ==
    /\ run.search.pc = "sending"
    /\ run.search.cmd = "push_artist"
    /\ batch_mode' = IF raised THEN batch_mode ELSE run.search.original_mode
    /\ run' = [run EXCEPT !.search.pc = "idle", !.search.cmd = "none",
                          !.search.commands = @ + 1]
    /\ UNCHANGED search_sessions
    /\ SearchFrame

NextSearch ==
    \/ CmdSearchStart
    \/ SearchTime
    \/ \E valid \in BOOLEAN : SearchBatchReply(valid)
    \/ \E outcome \in SearchOutcomes : SearchKeywordsReply(outcome)
    \/ \E outcome \in SearchOutcomes : CmdSearchArgs(outcome)
    \/ \E raised \in BOOLEAN : DoSearchSent(raised)
    \/ CmdPushArtistBegin
    \/ \E raised \in BOOLEAN : CmdPushArtistSent(raised)

SpecSearch == InitGate /\ [][NextSearch]_vars

C2_NoDoubleSendWhenOverlapping == \A w \in Works : tick_sent[w] <= 1

\* ------------------------------------------------------------------- C3
\* C3 (as claimed): a work delivered by /push <id>, /push a <artist> or /search
\* is not delivered again by a later tick or a later command.
C3_CommandSendNotRepeated == \A w \in Works : cmd_log[w] # "again"

\* ------------------------------------------------------------------- C4
\* C4: when a tick has completed, every work id that some notifier reported as
\* sent during the tick has exactly one push-history record, whatever the other
\* notifier did (reported fewer ids, or raised).
C4_SentIsRecordedOnce ==
    \A t \in Ticks :
        tick[t].pc = "done" =>
            \A w \in tick[t].reported : Len(push_history[w]) = 1

\* C4 witness: a completed tick in which the first notifier reported a work and
\* the last one did not (all_sent_ids holds it although the last send added
\* nothing), the work being recorded.
C4_Witness ==
    \E t \in Ticks :
        /\ tick[t].pc = "done"
        /\ tick[t].reported = {1}
        /\ tick[t].filtered = Works
        /\ PushedIds = {1}

\* ------------------------------------------------------------------- C6
\* C6 (as claimed): every push-history record written by a tick carries the
\* source of the strategy that produced the work, subscription taking
\* precedence over search and search over ranking.
ClaimedSource(S) ==
    IF "subscription" \in S THEN "subscription"
    ELSE IF "search" \in S THEN "search" ELSE "ranking"
C6_SourceIsProducingStrategy ==
    \A w \in Works :
        recorded_origin[w] # {} =>
            \A i \in 1..Len(push_history[w]) :
                push_history[w][i] = ClaimedSource(recorded_origin[w])

\* ------------------------------------------------------------------- C5
\* C5: once mark_pushed(id, s) has returned, is_pushed(id) stays true whatever
\* Store operation follows (another mark_pushed with any source, reset_xp_data,
\* init_db, ...), and push history never holds two records for one id.
C5_PushedStaysPushed ==
    [][\A id \in Works :
          /\ is_pushed(id) => is_pushed(id)'
          /\ Len(push_history[id])' <= 1]_vars

\* C5 witness: an id was marked and marked again (its one row carries the
\* later source), other Store operations ran and the profile table is empty.
C5_Witness ==
    /\ 1 \in remarked
    /\ push_history[1] = <<"ranking">>
    /\ store_ops = 4
    /\ xp_profile = EmptyMap

\* ------------------------------------------------------------------- C7
\* C7: for each work, the profiler is asked to apply a like / dislike at most
\* once and the platform bookmark is requested at most once, however many
\* taps or replies arrive for the work.
C7_ReactionAppliedOnce ==
    \A w \in Works : apply_count[w] <= 1 /\ bookmark_calls[w] <= 1

\* ------------------------------------------------------------------- C8
\* C8: a bookmark call is attempted for a like only after the reaction was
\* applied to the local Store; a like that changed nothing locally (no cache
\* row for the work) attempts no bookmark call.
C8_BookmarkOnlyAfterLocalApply ==
    (task.action = "like" /\ task.attempted) => task.applied

\* ------------------------------------------------------------------- C9
\* C9: when the platform call of a like or follow reaction failed, the chat
\* received a warning message.
C9_MirrorFailureWarnsChat ==
    last_done.mirror_failed => last_done.warned

\* ------------------------------------------------------------------ C10
\* C10 as stated: an update of a sender outside the allow-list is answered
\* with nothing at all.
C10_OutsiderGetsNothing ==
    \A r \in outsider_log : r[2] = "nothing"

\* C10 (amended): for a sender outside the allow-list a Telegram reply and a
\* OneBot message are answered with nothing; a Telegram command is answered
\* with the "no permission" reply and a button with the "no permission" alert,
\* and nothing else is done for them; /help is answered with the help text.
C10_OutsiderGetsOnlyRefusalOrHelp ==
    outsider_log \subseteq {<<"reply", "nothing">>, <<"onebot", "nothing">>,
                            <<"command", "no_permission">>,
                            <<"callback", "no_permission_alert">>,
                            <<"help", "help_text">>}

\* C10 witness: with an allow-list and a master configured, outsiders sent a
\* reply, a OneBot message, a command, a button press and /help.
C10_Witness ==
    /\ allowed_users = {1}
    /\ master_id = 1
    /\ outsider_log = {<<"reply", "nothing">>, <<"onebot", "nothing">>,
                       <<"command", "no_permission">>,
                       <<"callback", "no_permission_alert">>,
                       <<"help", "help_text">>}

\* ------------------------------------------------------------------ C11
\* what an update can change: the Store, the orchestrator's history of
\* deliveries, the notifier state and the reaction being handled
ProgramState == <<storeVars, tickVars, allowed_users, master_id, message_illust_map,
                  task, apply_count, bookmark_calls, last_done, notifierVars>>

OutsiderUpdate(u) ==
    \/ /\ Outsider(u)
       /\ \/ \E a \in {"like", "dislike", "follow"}, id \in 0..NumWorks : TgCallback(u, a, id)
          \/ \E m \in 0..NumWorks, x \in {"1", "2", "x"} : TgReply(u, m, x)
          \/ CmdHelp(u)
          \/ \E arg \in {"on", "off"} : CmdBatch(u, arg)
          \/ CmdSearchWizard(u)
          \/ TgSearchCancel(u)
          \/ TgMenuLimit(u)
    \/ /\ master_id # 0 /\ u # master_id
       /\ \E id \in Works, c \in {"1", "2", "x"} : ObMessage(u, id, c)

\* C11: with an allow-list configured, a command, button callback or reply of
\* a sender outside it leaves the Store, the notifier state and the reactions
\* and deliveries made exactly as they were (so a run with the event and the
\* run without it continue from the same state).
C11_OutsiderChangesNothing ==
    [][\A u \in Users : OutsiderUpdate(u) => UNCHANGED ProgramState]_vars

\* C11 witness: outsiders sent a reply, a command and a button press after an
\* insider had switched the batch mode, opened a wizard and asked for an input.
C11_Witness ==
    /\ allowed_users = {1}
    /\ {<<"reply", "nothing">>, <<"command", "no_permission">>,
        <<"callback", "no_permission_alert">>} \subseteq outsider_log
    /\ batch_mode = "telegraph"
    /\ search_sessions = {1}
    /\ pending_input = "set_limit"

\* ------------------------------------------------------------------ C12
\* C12 (as claimed): a failure of one fetch strategy does not abort the tick
\* (the other strategies' works are still filtered and sent).
C12_StrategyFailureDoesNotAbortTick ==
    fetch.failed # {} => fetch.pc # "aborted"

\* ------------------------------------------------------------------ C13
\* C13 (as claimed): a strategy one of whose platform queries failed does not
\* raise, and returns the works of its queries that succeeded.
C13_StrategyReturnsWhatSucceeded ==
    \A st \in fetch.failed :
        /\ fetch.pc # "aborted"
        /\ fetch.results[st] = fetch.got[st]

\* ------------------------------------------------------------------ C14
\* C14 (as claimed): a tick that failed with an authentication error of the
\* platform client sent no work and reported the failure by a text message.
C14_AuthErrorReportedToAdmin ==
    (fetch.error = "auth" /\ tick[1].pc = "done") =>
        /\ tick[1].reported = {}
        /\ "auth_error" \in admin_texts

\* ------------------------------------------------------------------ C15
RECURSIVE ReturnedIn(_, _)
ReturnedIn(a, b) ==
    IF a > b THEN 0 ELSE limiter.returned[a] + ReturnedIn(a + 1, b)

\* C15 (as claimed, the case without jitter): when no call slept a jitter,
\* over any window of W token periods at most W + capacity acquire calls
\* return (rate * W + C with the time counted in token periods).
C15_AcquiredWithinRatePlusBurst ==
    ~limiter.jittered =>
    \A a \in 0..MaxTime : \A b \in a..MaxTime :
        ReturnedIn(a, b) <= (b - a) + max_tokens

\* ------------------------------------------------------------------ C16
\* C16 (as claimed): after every send operation the message map holds at most
\* the limit of entries.
C16_MapWithinLimitAfterSend ==
    map_order.last # "none" => Cardinality(DOMAIN message_illust_map) <= MapLimit

\* ------------------------------------------------------------------ C17
\* C17 (as claimed): after any sequence of like/dislike reactions every
\* weight stored in the profile is >= 0.
C17_WeightsStayNonNegative ==
    \A tag \in DOMAIN xp_profile : xp_profile[tag] >= 0

\* ------------------------------------------------------------------ C18
\* the number of IncrementDislike(t) calls so far, as the Store counts them
DislikeCount(tag) == IF tag \in DOMAIN tag_blacklist THEN tag_blacklist[tag] ELSE 0

\* C18 (as claimed): the blacklist contains a tag exactly when its dislike
\* count has reached the configured threshold.
C18_BlacklistedExactlyAtThreshold ==
    \A tag \in TagNames :
        tag \in get_blacklisted_tags(tag_blacklist)
            <=> DislikeCount(tag) >= DislikeThreshold

C20_ThresholdIsAdaptive ==
    \A i \in 1..Len(search_calls) :
        search_calls[i].bookmark_threshold =
            adaptive_threshold(search_calls[i].base, search_calls[i].weight,
                               search_calls[i].pair)

\* ------------------------------------------------------------------ C21
\* C21: every work a tick has delivered has its tag list in the work cache,
\* from the moment of the first delivery on (the cache loop precedes the
\* first notifier send), so the reaction callback's lookup finds the tags.
C21_DeliveredWorkIsCached ==
    \A w \in Works :
        tick_sent[w] > 0 => get_cached_illust_tags(w) = IllustTags(w)

\* a work is delivered by the first notifier while the second has not been
\* called yet
C21_Witness ==
    \E t \in Ticks :
        /\ tick[t].pc = "send"
        /\ tick[t].next_notifier = 2
        /\ \E w \in tick[t].reported : tick_sent[w] > 0 /\ w \in DOMAIN illust_cache

\* ------------------------------------------------------------------ C22
\* C22 (as claimed): a tick in which a cleaner error occurred has sent the
\* summary with the retry button to every notifier that supports text when
\* it ends, also when the filter left no work or no work was delivered.
C22_CleanerErrorsAreSummarized ==
    (cleaner.closed /\ cleaner.occurred) => cleaner.alerted = TextNotifiers

\* ------------------------------------------------------------------ C23
\* C23 (as claimed): a logged batch has the status resolved if and only if a
\* replay of it through the cleaner succeeded; after replays in which the
\* cleaner failed again the status is still pending.
C23_ResolvedOnlyBySuccessfulReplay ==
    \A error_id \in 1..Len(ai_error_logs) :
        ai_error_logs[error_id].status = "resolved"
            <=> <<error_id, "cleaned">> \in cleaner.replays

\* ------------------------------------------------------------------ C24
\* C24 (as claimed): an authorized /push without arguments, and the menu's
\* push button, make the orchestrator run one tick (a main_task task is
\* created), and an authorized /schedule with a valid time or cron expression
\* has changed the scheduler's trigger when it is confirmed.
C24_CommandsReachOrchestrator ==
    [][/\ \A user \in Users :
            (Authorized(user) /\ (CmdPushAll(user) \/ TgMenuPush(user)))
                => daemon'.spawned = daemon.spawned + 1
       /\ \A user \in Users, input \in ScheduleInputs :
            (Authorized(user) /\ schedule_data(input) # "invalid"
                 /\ CmdSchedule(user, input))
                => daemon'.trigger = schedule_data(input)]_vars

\* ------------------------------------------------------------------ C25
\* C25 (as claimed): an authorized reply with text 1 (resp. 2) to a push
\* message of the map starts the reaction like (resp. dislike) for the work
\* of that message, in every notifier state.
C25_ReplyIsReaction ==
    [][\A user \in Users, text \in {"1", "2"} :
          (Authorized(user) /\ 1 \in DOMAIN message_illust_map
               /\ TgReply(user, 1, text))
          => /\ task'.pc = "on_feedback"
             /\ task'.id = message_illust_map[1]
             /\ task'.action = (IF text = "1" THEN "like" ELSE "dislike")]_vars

\* ------------------------------------------------------------------ C26
\* C26 (as claimed): a listener whose loop exited unexpectedly is eventually
\* running again, the long-poll (Telegram) one and the websocket (OneBot) one.
C26_ListenerEventuallyRestarted ==
    /\ (~daemon.tg_polling) ~> daemon.tg_polling
    /\ (~daemon.ob_listening) ~> daemon.ob_listening

\* ------------------------------------------------------------------ C27
\* C27 (as claimed): on shutdown the scheduler is stopped first, on every
\* path, and the platform client is not closed while a notifier is open.
C27_ShutdownOrder ==
    /\ daemon.phase # "serving" => daemon.scheduler = "shutdown"
    /\ ~daemon.client_open => daemon.open_notifiers = {}

\* ------------------------------------------------------------------ C28
\* C28 (as claimed): a tick's profile rebuild and a reaction's apply-feedback
\* are never in progress together.
C28_ProfilerMutationsSerialized ==
    ~(tick[1].pc = "build" /\ task.pc = "applying")

\* ------------------------------------------------------------------ C29
\* C29 (as claimed): a cron expression without exactly five fields ends the
\* process with exit code 2 and registers no job.
C29_BadCronRejected ==
    Len(daemon.cron_expr) # 5 => daemon.exit_code = 2 /\ daemon.jobs = {}

C31_NoUsableTagsNoQuery ==
    LET d == run.discover IN
    (d.pc # "idle" /\ \A i \in 1..Len(d.xp_tags) : d.xp_tags[i][2] = 0) =>
        /\ d.pc # "raised"
        /\ d.queries = 0
        /\ d.all_illusts = 0

\* ------------------------------------------------------------------ C40
\* C40 (as claimed): discover returns at most limit works.
C40_DiscoverAtMostLimit ==
    run.discover.pc = "returned" => run.discover.all_illusts <= run.discover.limit

\* ------------------------------------------------------------------ C32
\* C32: the wrapped function is invoked at most max_retries + 1 times; the
\* first success is returned with no further invocation; the sleep after
\* attempt i (counted from 0) is delay * backoff^i; after max_retries + 1
\* failures the last exception is raised; and every call ends.
C32_RetryInv ==
    LET r == run.retry IN
    /\ r.calls <= r.max_retries + 1
    /\ r.pc = "returned" => r.failed = r.calls - 1
    /\ r.pc \in {"calling", "sleeping"} => r.failed = r.calls
    /\ \A i \in 1..Len(r.waits) : r.waits[i] = r.delay * Pow(r.backoff, i - 1)
    /\ r.pc = "calling" => Len(r.waits) = r.calls
    /\ r.pc = "raised" => /\ r.calls = r.max_retries + 1
                          /\ r.failed = r.calls
                          /\ r.raised = r.last_exception
                          /\ r.raised \in Exceptions

C32_RetryBoundedAndTerminates ==
    /\ []C32_RetryInv
    /\ (run.retry.pc \in {"calling", "sleeping"}) ~> (run.retry.pc \in {"returned", "raised"})

C32_Witness ==
    /\ run.retry.pc = "raised"
    /\ run.retry.calls = 3
    /\ run.retry.waits = <<2, 6>>

\* ------------------------------------------------------------------ C33
\* C33: the send is invoked at most max_retries + 1 times; no invocation
\* starts earlier than the server's retry-after allows after a flood-control
\* error; an error that is not retryable is raised at its first occurrence.
C33_FloodRetry ==
    LET f == run.flood IN
    /\ f.calls <= f.max_retries + 1
    /\ ~f.early
    /\ "other" \notin f.retried_after
    /\ f.raised = "other" => f.pc = "raised"
    /\ f.pc = "raised" => f.raised = "other" \/ f.calls = f.max_retries + 1

C33_Witness ==
    /\ run.flood.pc = "calling"
    /\ run.flood.calls = 2
    /\ run.flood.retried_after = {"RetryAfter", "flood_text"}
    /\ run.flood.not_before = 4
    /\ run.flood.now = 5

\* ------------------------------------------------------------------ C34
\* C34 (as claimed): within one send every work reaches every recipient at
\* most once.
C34_DeliveredAtMostOnce ==
    \A w \in Works, r \in Recipients : run.send.delivered[w][r] <= 1

\* ------------------------------------------------------------------ C35
\* C35 (as claimed): every id that send returns is one of the input works
\* and reached at least one recipient.
C35_ReportedMeansDelivered ==
    /\ run.send.success_ids \subseteq run.send.illusts
    /\ \A w \in run.send.success_ids :
          \E r \in Recipients : run.send.delivered[w][r] >= 1

\* ------------------------------------------------------------------ C36
\* C36 (as claimed): one like reaction on a work causes at most one
\* bookmark-add call: while a single update has been taken, no work has more
\* than one call.
C36_OneLikeOneBookmark ==
    events <= 1 => \A w \in Works : bookmark_calls[w] <= 1

\* ------------------------------------------------------------------ C37
\* C37 (as claimed): a follow press never has its author id handed to
\* on_feedback as a work id (the cache lookup under it), and apply_feedback
\* never runs for it.
C37_FollowIsNotAWorkReaction ==
    task.action = "follow" => task.pc # "on_feedback" /\ ~task.applied

\* ------------------------------------------------------------------ C38
\* C38 (as claimed): once a search run has finished, however it ended, the
\* user's wizard session is gone and no later reply is taken as wizard input.
C38_SessionRemovedAfterSearch ==
    /\ (run.search.pc = "idle" /\ run.search.outcome # "none") =>
           Admin \notin search_sessions
    /\ ~run.search.late_input

\* ------------------------------------------------------------------ C39
\* C39 (as claimed): when the commands that force the batch mode have
\* finished, batch_mode is what it was before the first of them began.
C39_BatchModeRestored ==
    (run.search.pc = "idle" /\ run.search.mode_before # "unset") =>
        batch_mode = run.search.mode_before

====
